---- MODULE Spec2Model ----
(***************************************************************************)
(* Transcript post-processing of the ASR repository: text cleaning,        *)
(* token-to-segment grouping, time-code formatting and SRT/VTT/text/JSON   *)
(* rendering (src/asr_transcriber.py, src/mcp_server.py), the two MCP      *)
(* tools and their temporary directory (src/mcp_server.py), and the        *)
(* temporary audio file of the command line (src/main.py,                  *)
(* src/video_processor.py).                                                *)
(*                                                                         *)
(* Conventions.  A Python str is a sequence of characters; an ASCII        *)
(* character is the one-character string, any other character is written   *)
(* by its code point ("u3002" is the ideographic full stop).  A Python     *)
(* float is an IEEE-754 double, kept exactly as an integer part and the    *)
(* bits of its fraction, so that every rounding the code performs is       *)
(* performed here as well.                                                 *)
(***************************************************************************)
EXTENDS Integers, Sequences, FiniteSets, TLC

VARIABLES
    pc,              \* position of the operation in progress
    text,            \* _clean_text: the argument
    cleaned,         \* _clean_text(text)
    recleaned,       \* _clean_text(_clean_text(text))
    seconds,         \* time-code formatters: the argument (a float)
    srt_time,        \* _seconds_to_srt_time(seconds)
    vtt_time,        \* _seconds_to_vtt_time(seconds)
    seg_args,        \* _create_segments_from_timestamps: text, timestamps, words
    i,               \* ... the position of its loop in zip(words, timestamps)
    current_segment, \* ... its local current_segment
    segments,        \* ... its local segments, returned at the end
    result,          \* format_transcription_output: the result dict
    output_format,   \* ... the requested format
    asr_out,         \* what ASRTranscriber.format_transcription_output does
    mcp_out,         \* what mcp_server.format_transcription_output does
    tx_env,          \* transcribe_audio: the file, the model and the engine
    tx_out,          \* what transcribe_audio does
    tool_env,        \* MCP tool: its arguments and what its helpers do
    tool_out,        \* ... what the tool call produces
    cli_env,         \* main(): the arguments and what its helpers do
    temp_audio_path, \* ... its local temp_audio_path
    exit_code,       \* ... what main returns
    files            \* the temporary files and directories on disk

cleanVars  == <<text, cleaned, recleaned>>
timeVars   == <<seconds, srt_time, vtt_time>>
segVars    == <<seg_args, i, current_segment, segments>>
renderVars == <<result, output_format, asr_out, mcp_out>>
txVars     == <<tx_env, tx_out>>
coreVars   == <<cleanVars, timeVars, segVars, renderVars, txVars>>
runVars    == <<tool_env, tool_out, cli_env, temp_audio_path, exit_code, files>>
vars == <<pc, coreVars, runVars>>

\* A value no operation has produced yet.
Unset == <<"unset">>

\* The variables of the operations a specification does not exercise.
CleanIdle  == text = Unset /\ cleaned = Unset /\ recleaned = Unset
TimeIdle   == seconds = Unset /\ srt_time = Unset /\ vtt_time = Unset
SegIdle    == seg_args = Unset /\ i = Unset /\ current_segment = Unset
                  /\ segments = Unset
RenderIdle == result = Unset /\ output_format = Unset /\ asr_out = Unset
                  /\ mcp_out = Unset
TxIdle     == tx_env = Unset /\ tx_out = Unset
RunIdle    == /\ tool_env = Unset /\ tool_out = Unset /\ cli_env = Unset
              /\ temp_audio_path = Unset /\ exit_code = Unset
              /\ files = Unset

(***************************************************************************)
(* Generic sequence helpers.                                               *)
(***************************************************************************)
RECURSIVE Flatten(_)
Flatten(ss) == IF ss = <<>> THEN <<>> ELSE Head(ss) \o Flatten(Tail(ss))

\* All sequences over S of length 0..n.
SeqsUpTo(S, n) == UNION {[1..k -> S] : k \in 0..n}

(***************************************************************************)
(* IEEE-754 double arithmetic on non-negative values.                      *)
(* A float is [ip |-> integer part, fb |-> fraction bits, most significant *)
(* first, no trailing zero]; its value is ip + 0.fb (binary).              *)
(***************************************************************************)
MantissaBits == 53

RECURSIVE BitLen(_)
BitLen(n) == IF n = 0 THEN 0 ELSE 1 + BitLen(n \div 2)

\* Positions of the one bits of fb.
Ones(fb) == {k \in 1..Len(fb) : fb[k] = 1}

SetMax(S) == CHOOSE m \in S : \A k \in S : k <= m
SetMin(S) == CHOOSE m \in S : \A k \in S : m <= k

TrimZeros(fb) ==
    IF Ones(fb) = {} THEN <<>> ELSE SubSeq(fb, 1, SetMax(Ones(fb)))

LeadingZeros(fb) ==
    IF Ones(fb) = {} THEN Len(fb) ELSE SetMin(Ones(fb)) - 1

MkFloat(ip, fb) == [ip |-> ip, fb |-> TrimZeros(fb)]

IntToFloat(n) == MkFloat(n, <<>>)

\* One unit in the last place of fb is added to ip + 0.fb: the carry runs
\* through the trailing ones up to the last zero bit, or into ip.
IncLast(ip, fb) ==
    LET zeros == {k \in 1..Len(fb) : fb[k] = 0}
    IN  IF zeros = {}
        THEN [ip |-> ip + 1, fb |-> [k \in 1..Len(fb) |-> 0]]
        ELSE LET z == SetMax(zeros)
             IN  [ip |-> ip,
                  fb |-> [k \in 1..Len(fb) |->
                             IF k < z THEN fb[k] ELSE IF k = z THEN 1 ELSE 0]]

\* The double nearest to ip + 0.fb (+ something in (0, 1 ulp of fb) when
\* sticky), ties to even: the rounding of every IEEE operation.
RoundToDouble(ip, fb, sticky) ==
    LET keep == IF ip > 0 THEN MantissaBits - BitLen(ip)
                ELSE LeadingZeros(fb) + MantissaBits
    IN  IF Len(fb) <= keep THEN MkFloat(ip, fb)
        ELSE LET kept  == SubSeq(fb, 1, keep)
                 guard == fb[keep + 1]
                 rest  == sticky \/ \E k \in (keep + 2)..Len(fb) : fb[k] = 1
                 lsb   == IF keep > 0 THEN kept[keep] ELSE ip % 2
                 up    == guard = 1 /\ (rest \/ lsb = 1)
                 r     == IF up THEN IncLast(ip, kept)
                          ELSE [ip |-> ip, fb |-> kept]
             IN  MkFloat(r.ip, r.fb)

\* The first n bits of the binary expansion of r / d (0 <= r < d), and the
\* remainder left after them (long division, the two halves in turn).
RECURSIVE DivBits(_, _, _)
DivBits(r, d, n) ==
    IF n = 0 THEN [bits |-> <<>>, rem |-> r]
    ELSE IF n = 1
    THEN LET b == IF 2 * r >= d THEN 1 ELSE 0
         IN  [bits |-> <<b>>, rem |-> 2 * r - b * d]
    ELSE LET hi == DivBits(r, d, n \div 2)
             lo == DivBits(hi.rem, d, n - (n \div 2))
         IN  [bits |-> hi.bits \o lo.bits, rem |-> lo.rem]

\* Python  n / float(d)  for integers n >= 0, d > 0: the correctly rounded
\* quotient.
IntTrueDiv(n, d) ==
    LET q == DivBits(n % d, d, MantissaBits + 13)
    IN  RoundToDouble(n \div d, q.bits, q.rem # 0)

\* The exact product 0.fb * k + carry (in units of the last place of fb) for
\* a small integer k, as ip + 0.fb: schoolbook multiplication, the low half
\* first, its carry going into the high half.
RECURSIVE MulBits(_, _, _)
MulBits(fb, k, carry) ==
    IF fb = <<>> THEN [ip |-> carry, fb |-> <<>>]
    ELSE IF Len(fb) = 1
    THEN [ip |-> (fb[1] * k + carry) \div 2, fb |-> <<(fb[1] * k + carry) % 2>>]
    ELSE LET h  == Len(fb) \div 2
             lo == MulBits(SubSeq(fb, h + 1, Len(fb)), k, carry)
             hi == MulBits(SubSeq(fb, 1, h), k, lo.ip)
             lh == <<lo, hi>>
         IN  [ip |-> lh[2].ip, fb |-> lh[2].fb \o lh[1].fb]

\* Python  x * k  for a float x >= 0 and a small integer k.
FloatMulInt(x, k) ==
    LET p == MulBits(x.fb, k, 0)
    IN  RoundToDouble(x.ip * k + p.ip, p.fb, FALSE)

\* Python  int(x): truncation.
FloatToInt(x) == x.ip

\* Python  x - int(x): exact in IEEE arithmetic.
FloatFracPart(x) == [ip |-> 0, fb |-> x.fb]

\* Python  x // k  for a float x >= 0 and an integer k > 0 (a float holding
\* an integer; only its value is used).
FloatFloorDivInt(x, k) == x.ip \div k

\* Python  x % k  for a float x >= 0 and an integer k > 0: fmod, exact.
FloatModInt(x, k) == [ip |-> x.ip % k, fb |-> x.fb]

\* fb lengthened to n bits with zeros.
PadBits(fb, n) == fb \o [k \in 1..(n - Len(fb)) |-> 0]

\* The exact sum 0.a + 0.b + carry (in units of the last place) of two bit
\* strings of one length, as ip + 0.fb: the low half first, its carry going
\* into the high half.
RECURSIVE AddBits(_, _, _)
AddBits(a, b, carry) ==
    IF a = <<>> THEN [ip |-> carry, fb |-> <<>>]
    ELSE IF Len(a) = 1
    THEN [ip |-> (a[1] + b[1] + carry) \div 2,
          fb |-> <<(a[1] + b[1] + carry) % 2>>]
    ELSE LET h  == Len(a) \div 2
             lo == AddBits(SubSeq(a, h + 1, Len(a)), SubSeq(b, h + 1, Len(b)),
                           carry)
             hi == AddBits(SubSeq(a, 1, h), SubSeq(b, 1, h), lo.ip)
             lh == <<lo, hi>>
         IN  [ip |-> lh[2].ip, fb |-> lh[2].fb \o lh[1].fb]

\* Python  x + y  for floats x, y >= 0.
FloatAdd(x, y) ==
    LET n == IF Len(x.fb) >= Len(y.fb) THEN Len(x.fb) ELSE Len(y.fb)
        t == AddBits(PadBits(x.fb, n), PadBits(y.fb, n), 0)
    IN  RoundToDouble(x.ip + y.ip + t.ip, t.fb, FALSE)

\* Python  x > y  for floats x, y >= 0.
FloatGreater(x, y) ==
    LET BitAt(fb, k) == IF k <= Len(fb) THEN fb[k] ELSE 0
    IN  \/ x.ip > y.ip
        \/ /\ x.ip = y.ip
           /\ \E k \in 1..Len(x.fb) :
                  /\ x.fb[k] = 1
                  /\ BitAt(y.fb, k) = 0
                  /\ \A j \in 1..(k - 1) : x.fb[j] = BitAt(y.fb, j)

\* Python  max(x, y)  for floats: the first argument unless the second is
\* greater.
FloatMax(x, y) == IF FloatGreater(y, x) THEN y ELSE x

\* x rounded to a whole number of thousandths, ties to even: what the
\* fixed-point conversion '.3f' prints, as an integer count of thousandths.
FloatToThousandths(x) ==
    LET p  == MulBits(x.fb, 1000, 0)
        g  == TrimZeros(p.fb)
        lo == x.ip * 1000 + p.ip
        up == /\ g # <<>>
              /\ g[1] = 1
              /\ (Len(g) > 1 \/ lo % 2 = 1)
    IN  IF up THEN lo + 1 ELSE lo

(***************************************************************************)
(* Decimal formatting.                                                     *)
(***************************************************************************)
Digit == <<"0", "1", "2", "3", "4", "5", "6", "7", "8", "9">>

RECURSIVE DecStr(_)
DecStr(n) == IF n < 10 THEN <<Digit[n + 1]>>
             ELSE DecStr(n \div 10) \o <<Digit[(n % 10) + 1]>>

RECURSIVE ZeroPad(_, _)
ZeroPad(s, w) == IF Len(s) >= w THEN s ELSE ZeroPad(<<"0">> \o s, w)

\* f"{n:02d}" and f"{n:03d}".
Fmt02d(n) == ZeroPad(DecStr(n), 2)
Fmt03d(n) == ZeroPad(DecStr(n), 3)

\* f"{x:06.3f}" for a float x >= 0.
Fmt06_3f(x) ==
    LET t == FloatToThousandths(x)
    IN  ZeroPad(DecStr(t \div 1000) \o <<".">> \o Fmt03d(t % 1000), 6)

(***************************************************************************)
(* ASRTranscriber._seconds_to_srt_time / _seconds_to_vtt_time              *)
(***************************************************************************)
_seconds_to_srt_time(s) ==
    LET hours     == FloatFloorDivInt(s, 3600)
        minutes   == FloatFloorDivInt(FloatModInt(s, 3600), 60)
        secs      == FloatToInt(FloatModInt(s, 60))
        millisecs == FloatToInt(FloatMulInt(FloatFracPart(s), 1000))
    IN  Fmt02d(hours) \o <<":">> \o Fmt02d(minutes) \o <<":">> \o Fmt02d(secs)
            \o <<",">> \o Fmt03d(millisecs)

_seconds_to_vtt_time(s) ==
    LET hours   == FloatFloorDivInt(s, 3600)
        minutes == FloatFloorDivInt(FloatModInt(s, 3600), 60)
        secs    == FloatModInt(s, 60)
    IN  Fmt02d(hours) \o <<":">> \o Fmt02d(minutes) \o <<":">> \o Fmt06_3f(secs)

(***************************************************************************)
(* Time-code formatting on its own: a whole number of milliseconds, as the *)
(* float the pipeline makes of it (ms / 1000.0), through both formatters.  *)
(* The field ms of the variable seconds remembers the exact input.         *)
(***************************************************************************)
MaxMs == 1300

\* Whole-millisecond inputs: a contiguous range and the documented examples.
TimeInputsMs == (0..MaxMs) \cup {2500, 59999, 65500, 3599999, 3661250}

TimeInit ==
    /\ pc = "time"
    /\ seconds \in {[ms |-> m, val |-> IntTrueDiv(m, 1000)] : m \in TimeInputsMs}
    /\ srt_time = Unset /\ vtt_time = Unset
    /\ CleanIdle /\ SegIdle /\ RenderIdle /\ TxIdle /\ RunIdle

ToSrtTime ==
    /\ pc = "time" /\ srt_time = Unset
    /\ srt_time' = _seconds_to_srt_time(seconds.val)
    /\ UNCHANGED <<pc, cleanVars, seconds, vtt_time, segVars, renderVars,
                   txVars, runVars>>

ToVttTime ==
    /\ pc = "time" /\ vtt_time = Unset
    /\ vtt_time' = _seconds_to_vtt_time(seconds.val)
    /\ UNCHANGED <<pc, cleanVars, seconds, srt_time, segVars, renderVars,
                   txVars, runVars>>

TimeNext == ToSrtTime \/ ToVttTime

SpecTime == TimeInit /\ [][TimeNext]_vars

IsDigit(c) == \E d \in 1..10 : Digit[d] = c

DigitVal(c) == (CHOOSE d \in 1..10 : Digit[d] = c) - 1

\* The number written by the two digits of s at positions a, a + 1.
TwoDigits(s, a) == DigitVal(s[a]) * 10 + DigitVal(s[a + 1])

\* s reads HH:MM:SS<sep>mmm with MM and SS in 00..59, and the four fields
\* add up to ms milliseconds.
IsTimeCodeOf(s, sep, ms) ==
    /\ Len(s) = 12
    /\ s[3] = ":" /\ s[6] = ":" /\ s[9] = sep
    /\ \A k \in {1, 2, 4, 5, 7, 8, 10, 11, 12} : IsDigit(s[k])
    /\ TwoDigits(s, 4) <= 59
    /\ TwoDigits(s, 7) <= 59
    /\ TwoDigits(s, 1) * 3600000 + TwoDigits(s, 4) * 60000
           + TwoDigits(s, 7) * 1000 + DigitVal(s[10]) * 100
           + TwoDigits(s, 11) = ms

\* C7: for a whole number of milliseconds the SRT time code is HH:MM:SS,mmm
\* and the VTT time code HH:MM:SS.mmm, the fields adding up to the input
\* and being the same in both.
C7_TimeCodeExact ==
    /\ srt_time # Unset => IsTimeCodeOf(srt_time, ",", seconds.ms)
    /\ vtt_time # Unset => IsTimeCodeOf(vtt_time, ".", seconds.ms)
    /\ (srt_time # Unset /\ vtt_time # Unset) =>
           \A k \in {1, 2, 4, 5, 7, 8, 10, 11, 12} : srt_time[k] = vtt_time[k]


(***************************************************************************)
(* ASRTranscriber._clean_text                                              *)
(***************************************************************************)
\* None, where a str is expected (no str holds this element).
PyNone == <<"None">>

\* The characters the pattern \s and str.strip() take for whitespace (those
\* of them the inputs below can hold).
Whitespace == {" ", "\t", "\n", "\r", "\f", "u000B", "u3000"}

IsSpace(c) == c \in Whitespace

\* Where the match of  <\|[^|]*\|>  that starts at position k of s ends, or 0
\* when none starts there: after "<|" the class [^|]* runs up to the first
\* "|", which must be followed by ">".
MarkupEnd(s, k) ==
    IF k + 1 <= Len(s) /\ s[k] = "<" /\ s[k + 1] = "|"
    THEN LET pipes == {p \in (k + 2)..Len(s) : s[p] = "|"}
         IN  IF pipes = {} THEN 0
             ELSE IF SetMin(pipes) + 1 <= Len(s) /\ s[SetMin(pipes) + 1] = ">"
                  THEN SetMin(pipes) + 1
                  ELSE 0
    ELSE 0

\* re.sub(r'<\|[^|]*\|>', '', s) from position k on: one left-to-right scan,
\* every match found is dropped and the scan goes on after it.
RECURSIVE SubMarkup(_, _)
SubMarkup(s, k) ==
    IF k > Len(s) THEN <<>>
    ELSE IF MarkupEnd(s, k) # 0 THEN SubMarkup(s, MarkupEnd(s, k) + 1)
    ELSE <<s[k]>> \o SubMarkup(s, k + 1)

\* re.sub(r'\s+', ' ', s) from position k on: every maximal run of
\* whitespace becomes one space.
RECURSIVE SubSpaces(_, _)
SubSpaces(s, k) ==
    IF k > Len(s) THEN <<>>
    ELSE IF ~IsSpace(s[k]) THEN <<s[k]>> \o SubSpaces(s, k + 1)
    ELSE IF k > 1 /\ IsSpace(s[k - 1]) THEN SubSpaces(s, k + 1)
    ELSE <<" ">> \o SubSpaces(s, k + 1)

\* str.strip()
Strip(s) ==
    LET solid == {k \in 1..Len(s) : ~IsSpace(s[k])}
    IN  IF solid = {} THEN <<>> ELSE SubSeq(s, SetMin(solid), SetMax(solid))

\* A variant that normalises the whitespace before it removes the markup.
_clean_text_spaces_first(t) ==
    IF t = PyNone \/ t = <<>> THEN <<>>
    ELSE SubMarkup(Strip(SubSpaces(t, 1)), 1)

_clean_text(t) ==
    IF t = PyNone \/ t = <<>> THEN <<>>
    ELSE Strip(SubSpaces(SubMarkup(t, 1), 1))

(***************************************************************************)
(* Text cleaning on its own: a raw text made of at most MaxPieces pieces   *)
(* (or None) is cleaned, and the cleaned text is cleaned again.            *)
(***************************************************************************)
MaxPieces == 4

CleanPieces ==
    {<<"<", "|">>, <<"|", ">">>, <<"<">>, <<"|">>, <<">">>, <<" ">>,
     <<"\t">>, <<"a">>}

CleanInputs ==
    {PyNone} \cup {Flatten(ps) : ps \in SeqsUpTo(CleanPieces, MaxPieces)}

CleanInit ==
    /\ pc = "clean"
    /\ text \in CleanInputs
    /\ cleaned = Unset /\ recleaned = Unset
    /\ TimeIdle /\ SegIdle /\ RenderIdle /\ TxIdle /\ RunIdle

CleanText ==
    /\ pc = "clean"
    /\ cleaned' = _clean_text(text)
    /\ pc' = "cleaned"
    /\ UNCHANGED <<text, recleaned, timeVars, segVars, renderVars,
                   txVars, runVars>>

CleanAgain ==
    /\ pc = "cleaned"
    /\ recleaned' = _clean_text(cleaned)
    /\ pc' = "recleaned"
    /\ UNCHANGED <<text, cleaned, timeVars, segVars, renderVars,
                   txVars, runVars>>

CleanNext == CleanText \/ CleanAgain

SpecClean == CleanInit /\ [][CleanNext]_vars

\* A markup token occurs in s: "<|", characters other than "|", "|>".
HasMarkup(s) ==
    \E a \in 1..Len(s) : \E b \in (a + 2)..(Len(s) - 1) :
        /\ s[a] = "<" /\ s[a + 1] = "|"
        /\ s[b] = "|" /\ s[b + 1] = ">"
        /\ \A k \in (a + 2)..(b - 1) : s[k] # "|"

\* C1: cleaning is idempotent: cleaning a cleaned text changes nothing.
C1_CleanIdempotent == pc = "recleaned" => recleaned = cleaned

\* C2: the cleaned text holds no markup token "<|" ... "|>".
C2_NoMarkupLeft == pc \in {"cleaned", "recleaned"} => ~HasMarkup(cleaned)

\* C3: the cleaned text has no whitespace at either end, no whitespace
\* character but the space, and no two spaces in a row; an empty or null
\* text gives the empty text.
C3_WhitespaceNormal ==
    pc \in {"cleaned", "recleaned"} =>
        /\ cleaned # <<>> => cleaned[1] # " " /\ cleaned[Len(cleaned)] # " "
        /\ \A k \in 1..Len(cleaned) : IsSpace(cleaned[k]) => cleaned[k] = " "
        /\ \A k \in 1..(Len(cleaned) - 1) :
               ~(cleaned[k] = " " /\ cleaned[k + 1] = " ")
        /\ (text = PyNone \/ text = <<>>) => cleaned = <<>>

\* C3 happens: a text with whitespace at both ends, a tab and a run of
\* whitespace inside has been cleaned to something.
C3_Witness ==
    /\ pc = "cleaned"
    /\ text # PyNone /\ Len(text) >= 4
    /\ IsSpace(text[1]) /\ IsSpace(text[Len(text)])
    /\ \E k \in 1..(Len(text) - 1) : text[k] = "\t" /\ IsSpace(text[k + 1])
    /\ cleaned # <<>>

(***************************************************************************)
(* ASRTranscriber._create_segments_from_timestamps                         *)
(***************************************************************************)
\* None, where a float is expected.
NoneF == [none |-> TRUE]

\* The quotients ms / 1000.0 of the millisecond counts the inputs below
\* hold, computed once.
KnownMs == {0, 20, 50, 100, 500, 900, 1200, 1300, 2500}

SecondsOfKnownMs == [ms \in KnownMs |-> IntTrueDiv(ms, 1000)]

\* ms / 1000.0
MsToSeconds(ms) ==
    IF ms \in KnownMs THEN SecondsOfKnownMs[ms] ELSE IntTrueDiv(ms, 1000)

Min2(a, b) == IF a <= b THEN a ELSE b

\* word.startswith('<|') and word.endswith('|>')
IsMarkupWord(w) ==
    /\ Len(w) >= 2
    /\ w[1] = "<" /\ w[2] = "|"
    /\ w[Len(w) - 1] = "|" /\ w[Len(w)] = ">"

\* ['。', '！', '？', '.', '!', '?', ',', '，']
SegmentTerminators ==
    {<<"u3002">>, <<"uFF01">>, <<"uFF1F">>, <<".">>, <<"!">>, <<"?">>,
     <<",">>, <<"uFF0C">>}

EmptySegment == [text |-> <<>>, start |-> NoneF, end |-> NoneF, words |-> <<>>]

\* A variant of the guard that forgets to compare the two lengths.
SegDegenerateNoLengths(ts, ws) == ts = <<>> \/ ws = <<>>

\* not timestamps or not words or len(timestamps) != len(words)
SegDegenerate(ts, ws) == ts = <<>> \/ ws = <<>> \/ Len(ts) # Len(ws)

\* The number of pairs zip(words, timestamps) yields.
ZipLen(args) == Min2(Len(args.words), Len(args.timestamps))

\* The body of the loop for a word that is not markup, up to the test that
\* closes the segment: the word and its times go into current_segment.
AddWord(cur, w, ts) ==
    [text  |-> cur.text \o w,
     start |-> IF cur.start = NoneF THEN MsToSeconds(ts[1]) ELSE cur.start,
     end   |-> MsToSeconds(ts[2]),
     words |-> Append(cur.words, [word  |-> w,
                                  start |-> MsToSeconds(ts[1]),
                                  end   |-> MsToSeconds(ts[2])])]

\* A variant of the test that does not take the commas for boundaries.
ClosesSegmentNoComma(w, k, ws) ==
    w \in SegmentTerminators \ {<<",">>, <<"uFF0C">>} \/ k = Len(ws) - 1

\* word in [...] or i == len(words) - 1
ClosesSegment(w, k, ws) == w \in SegmentTerminators \/ k = Len(ws) - 1

SegEnter ==
    /\ pc = "seg_call"
    /\ segments' = <<>>
    /\ IF SegDegenerate(seg_args.timestamps, seg_args.words)
       THEN pc' = "seg_done" /\ UNCHANGED <<i, current_segment>>
       ELSE pc' = "seg_loop" /\ i' = 0 /\ current_segment' = EmptySegment
    /\ UNCHANGED <<seg_args, cleanVars, timeVars, renderVars, txVars, runVars>>

\* A variant of the markup pass that starts the segment afresh.
SegSkipMarkupResets ==
    /\ pc = "seg_loop" /\ i < ZipLen(seg_args)
    /\ IsMarkupWord(seg_args.words[i + 1])
    /\ i' = i + 1
    /\ current_segment' = EmptySegment
    /\ UNCHANGED <<pc, seg_args, segments, cleanVars, timeVars, renderVars,
                   txVars, runVars>>

SegSkipMarkup ==
    /\ pc = "seg_loop" /\ i < ZipLen(seg_args)
    /\ IsMarkupWord(seg_args.words[i + 1])
    /\ i' = i + 1
    /\ UNCHANGED <<pc, seg_args, current_segment, segments, cleanVars,
                   timeVars, renderVars, txVars, runVars>>

SegAddWord ==
    /\ pc = "seg_loop" /\ i < ZipLen(seg_args)
    /\ ~IsMarkupWord(seg_args.words[i + 1])
    /\ ~ClosesSegment(seg_args.words[i + 1], i, seg_args.words)
    /\ current_segment' = AddWord(current_segment, seg_args.words[i + 1],
                                  seg_args.timestamps[i + 1])
    /\ i' = i + 1
    /\ UNCHANGED <<pc, seg_args, segments, cleanVars, timeVars, renderVars,
                   txVars, runVars>>

\* A variant of the closing pass that does not start a new segment.
SegCloseSegmentNoReset ==
    /\ pc = "seg_loop" /\ i < ZipLen(seg_args)
    /\ ~IsMarkupWord(seg_args.words[i + 1])
    /\ ClosesSegment(seg_args.words[i + 1], i, seg_args.words)
    /\ LET cur == AddWord(current_segment, seg_args.words[i + 1],
                          seg_args.timestamps[i + 1])
       IN  /\ segments' = IF Strip(cur.text) # <<>>
                          THEN Append(segments, cur)
                          ELSE segments
           /\ current_segment' = cur
    /\ i' = i + 1
    /\ UNCHANGED <<pc, seg_args, cleanVars, timeVars, renderVars, txVars,
                   runVars>>

SegCloseSegment ==
    /\ pc = "seg_loop" /\ i < ZipLen(seg_args)
    /\ ~IsMarkupWord(seg_args.words[i + 1])
    /\ ClosesSegment(seg_args.words[i + 1], i, seg_args.words)
    /\ LET cur == AddWord(current_segment, seg_args.words[i + 1],
                          seg_args.timestamps[i + 1])
       IN  segments' = IF Strip(cur.text) # <<>>
                       THEN Append(segments, cur)
                       ELSE segments
    /\ current_segment' = EmptySegment
    /\ i' = i + 1
    /\ UNCHANGED <<pc, seg_args, cleanVars, timeVars, renderVars, txVars,
                   runVars>>

SegReturn ==
    /\ pc = "seg_loop" /\ i = ZipLen(seg_args)
    /\ pc' = "seg_done"
    /\ UNCHANGED <<seg_args, i, current_segment, segments, cleanVars,
                   timeVars, renderVars, txVars, runVars>>

(***************************************************************************)
(* Segmentation on its own: at most MaxWords words and, independently, at  *)
(* most MaxWords timestamps, with any text.                                *)
(***************************************************************************)
MaxWords == 3

WordChoices ==
    {<<"a">>, <<"u3002">>, <<",">>, <<"<", "|", "z", "|", ">">>, <<" ">>}

TimestampChoices == {<<0, 100>>, <<100, 1200>>, <<1300, 2500>>}

\* A stream of two sentences, five words with increasing times.
TwoSentences ==
    [text       |-> <<"u4F60", "u597D", "u3002", "u518D", "u89C1">>,
     timestamps |-> <<<<0, 100>>, <<100, 500>>, <<500, 900>>, <<900, 1200>>,
                      <<1300, 2500>>>>,
     words      |-> <<<<"u4F60">>, <<"u597D">>, <<"u3002">>, <<"u518D">>,
                      <<"u89C1">>>>]

SegInit ==
    /\ pc = "seg_call"
    /\ seg_args \in [text       : {<<>>, <<"a">>},
                     timestamps : SeqsUpTo(TimestampChoices, MaxWords),
                     words      : SeqsUpTo(WordChoices, MaxWords)]
                        \cup {TwoSentences}
    /\ i = Unset /\ current_segment = Unset /\ segments = Unset
    /\ CleanIdle /\ TimeIdle /\ RenderIdle /\ TxIdle /\ RunIdle

SegNext ==
    SegEnter \/ SegSkipMarkup \/ SegAddWord \/ SegCloseSegment \/ SegReturn

SpecSeg == SegInit /\ [][SegNext]_vars

\* C4: with no timestamps, no words, or not as many of the ones as of the
\* others, the segmenter returns the empty list, whatever the text.
C4_DegenerateGivesEmpty ==
    (/\ pc = "seg_done"
     /\ \/ Len(seg_args.timestamps) = 0
        \/ Len(seg_args.words) = 0
        \/ Len(seg_args.timestamps) # Len(seg_args.words))
    => segments = <<>>

\* C4 happens: the segmenter has returned for words that are not markup
\* and timestamps of another, non-zero, length.
C4_Witness ==
    /\ pc = "seg_done"
    /\ Len(seg_args.timestamps) > 0 /\ Len(seg_args.words) > 0
    /\ Len(seg_args.timestamps) # Len(seg_args.words)
    /\ \A k \in 1..Len(seg_args.words) : seg_args.words[k] = <<"a">>
    /\ seg_args.text # <<>>

(***************************************************************************)
(* Rendering: values.                                                      *)
(* A dict is a record holding exactly the keys it has.  What a call does   *)
(* is a record: a returned str, the str json.dumps returns (kept as the    *)
(* value it serialises), or an exception leaving the call.                 *)
(***************************************************************************)
Str(s)          == [kind |-> "str", s |-> s]
JsonOf(v)       == [kind |-> "json", of |-> v]
Raise(exc, msg) == [kind |-> "raise", exc |-> exc, msg |-> msg]

\* d[key] of a dict without the key; str(e) is the repr of the key.
KeyError(key) == Raise("KeyError", <<"'", key, "'">>)

\* None // 3600; the interpreter's message is kept as one symbol.
NoneFloorDivError ==
    Raise("TypeError",
          <<"unsupported operand type(s) for //: 'NoneType' and 'int'">>)

\* "abc"["start"]; the interpreter's message is kept as one symbol.
StrIndexError == Raise("TypeError", <<"string indices must be integers">>)

\* No call made yet.
NoOutput == [kind |-> "none"]

Returned(out) == out.kind \in {"str", "json"}

\* The outcome of a loop that appends what each iteration yields to prefix:
\* the first exception, or the whole string.
FirstRaise(outs) ==
    outs[SetMin({k \in DOMAIN outs : outs[k].kind = "raise"})]

Accumulate(prefix, outs) ==
    IF \E k \in DOMAIN outs : outs[k].kind = "raise"
    THEN FirstRaise(outs)
    ELSE Str(prefix \o Flatten([k \in DOMAIN outs |-> outs[k].s]))

\* The formatters on the seconds the inputs below hold, computed once.
KnownSeconds == {SecondsOfKnownMs[ms] : ms \in KnownMs}

SrtTimeOfKnown == [x \in KnownSeconds |-> _seconds_to_srt_time(x)]

VttTimeOfKnown == [x \in KnownSeconds |-> _seconds_to_vtt_time(x)]

\* self._seconds_to_srt_time(v), v a float or None
SrtTimeOf(v) ==
    IF v = NoneF THEN NoneFloorDivError
    ELSE IF v \in KnownSeconds THEN Str(SrtTimeOfKnown[v])
    ELSE Str(_seconds_to_srt_time(v))

\* self._seconds_to_vtt_time(v), v a float or None
VttTimeOf(v) ==
    IF v = NoneF THEN NoneFloorDivError
    ELSE IF v \in KnownSeconds THEN Str(VttTimeOfKnown[v])
    ELSE Str(_seconds_to_vtt_time(v))

Arrow == <<" ", "-", "-", ">", " ">>

\* f"{number}\n" f"{start_time} --> {end_time}\n" f"{text}\n\n"
SrtCue(number, start_time, end_time, cue_text) ==
    DecStr(number) \o <<"\n">> \o start_time \o Arrow \o end_time \o <<"\n">>
        \o cue_text \o <<"\n", "\n">>

\* f"{start_time} --> {end_time}\n" f"{text}\n\n"
VttCue(start_time, end_time, cue_text) ==
    start_time \o Arrow \o end_time \o <<"\n">> \o cue_text \o <<"\n", "\n">>

WebVttHeader == <<"W", "E", "B", "V", "T", "T", "\n", "\n">>

\* isinstance(segment, dict): a str segment is kept as [pystr |-> chars].
IsDict(segment) == "pystr" \notin DOMAIN segment

\* str(segment) of a dict: its repr, kept as one symbol.
ReprOfDict(segment) == <<"repr(dict)">>

\* dict.get(key, default)
Get(d, key, default) == IF key \in DOMAIN d THEN d[key] ELSE default

\* max(2.0, len(text) * 0.4)
EstimatedDuration(t) ==
    FloatMax(IntToFloat(2), FloatMulInt(IntTrueDiv(4, 10), Len(t)))

(***************************************************************************)
(* ASRTranscriber._format_as_srt and _format_as_vtt                        *)
(***************************************************************************)
\* One pass of the loop over formatted_segments in _format_as_srt.
Tier1SrtCue(segment) ==
    IF "start_time" \notin DOMAIN segment THEN KeyError("start_time")
    ELSE IF SrtTimeOf(segment.start_time).kind = "raise"
    THEN SrtTimeOf(segment.start_time)
    ELSE IF "end_time" \notin DOMAIN segment THEN KeyError("end_time")
    ELSE IF SrtTimeOf(segment.end_time).kind = "raise"
    THEN SrtTimeOf(segment.end_time)
    ELSE IF "index" \notin DOMAIN segment THEN KeyError("index")
    ELSE IF "text" \notin DOMAIN segment THEN KeyError("text")
    ELSE Str(SrtCue(segment.index, SrtTimeOf(segment.start_time).s,
                    SrtTimeOf(segment.end_time).s, segment.text))

\* One pass of the loop over formatted_segments in _format_as_vtt.
Tier1VttCue(segment) ==
    IF "start_time" \notin DOMAIN segment THEN KeyError("start_time")
    ELSE IF VttTimeOf(segment.start_time).kind = "raise"
    THEN VttTimeOf(segment.start_time)
    ELSE IF "end_time" \notin DOMAIN segment THEN KeyError("end_time")
    ELSE IF VttTimeOf(segment.end_time).kind = "raise"
    THEN VttTimeOf(segment.end_time)
    ELSE IF "text" \notin DOMAIN segment THEN KeyError("text")
    ELSE Str(VttCue(VttTimeOf(segment.start_time).s,
                    VttTimeOf(segment.end_time).s, segment.text))

\* One pass of the loop over segments in _format_as_srt; k is i + 1.  A
\* segment that is no dict, or has no start or no end, adds nothing.
Tier2SrtCue(k, segment) ==
    IF ~(IsDict(segment) /\ "start" \in DOMAIN segment
            /\ "end" \in DOMAIN segment)
    THEN Str(<<>>)
    ELSE IF SrtTimeOf(segment.start).kind = "raise"
    THEN SrtTimeOf(segment.start)
    ELSE IF SrtTimeOf(segment.end).kind = "raise"
    THEN SrtTimeOf(segment.end)
    ELSE Str(SrtCue(k, SrtTimeOf(segment.start).s, SrtTimeOf(segment.end).s,
                    Get(segment, "text", <<>>)))

\* One pass of the loop over segments in _format_as_vtt; k is i + 1.
Tier2VttCue(k, segment) ==
    IF IsDict(segment) /\ "start" \in DOMAIN segment /\ "end" \in DOMAIN segment
    THEN IF VttTimeOf(segment.start).kind = "raise"
         THEN VttTimeOf(segment.start)
         ELSE IF VttTimeOf(segment.end).kind = "raise"
         THEN VttTimeOf(segment.end)
         ELSE Str(VttCue(VttTimeOf(segment.start).s, VttTimeOf(segment.end).s,
                         Get(segment, "text", ReprOfDict(segment))))
    ELSE LET timed    == IF IsDict(segment) THEN Get(segment, "text", <<>>)
                         ELSE segment.pystr
             duration == EstimatedDuration(timed)
             cue_text == IF IsDict(segment)
                         THEN Get(segment, "text", ReprOfDict(segment))
                         ELSE segment.pystr
         IN  Str(VttCue(VttTimeOf(FloatMulInt(duration, k - 1)).s,
                        VttTimeOf(FloatMulInt(duration, k)).s, cue_text))

\* The characters re.split(r'[...]', text) splits at.
SentenceDelimiters == {"u3002", "uFF01", "uFF1F", ".", "!", "?"}

\* re.split(r'[...]', s)
RECURSIVE ReSplit(_)
ReSplit(s) ==
    IF \A k \in 1..Len(s) : s[k] \notin SentenceDelimiters THEN <<s>>
    ELSE LET k == SetMin({j \in 1..Len(s) : s[j] \in SentenceDelimiters})
         IN  <<SubSeq(s, 1, k - 1)>> \o ReSplit(SubSeq(s, k + 1, Len(s)))

\* [s.strip() for s in sentences if s.strip()]
StrippedSentences(t) ==
    LET pieces == ReSplit(t)
        NonEmpty(p) == p # <<>>
    IN  SelectSeq([k \in 1..Len(pieces) |-> Strip(pieces[k])], NonEmpty)

\* current_time when the loop reaches sentences[k]: 0, then += duration.
RECURSIVE FallbackStart(_, _)
FallbackStart(sentences, k) ==
    IF k = 1 THEN IntToFloat(0)
    ELSE FloatAdd(FallbackStart(sentences, k - 1),
                  EstimatedDuration(sentences[k - 1]))

\* A variant that leaves every sentence as it is.
RestorePunctuationNever(sentence) == sentence

\* if not sentence.endswith((...)): sentence += the ideographic full stop
RestorePunctuation(sentence) ==
    IF sentence[Len(sentence)] \in SentenceDelimiters THEN sentence
    ELSE sentence \o <<"u3002">>

\* The fallback branch of _format_as_srt: the cues of the whole text.
Tier3Srt(t) ==
    LET sentences == StrippedSentences(t)
    IN  [k \in 1..Len(sentences) |->
            Str(SrtCue(k, SrtTimeOf(FallbackStart(sentences, k)).s,
                       SrtTimeOf(FloatAdd(FallbackStart(sentences, k),
                                          EstimatedDuration(sentences[k]))).s,
                       RestorePunctuation(sentences[k])))]

\* The fallback branch of _format_as_vtt.
Tier3Vtt(t) ==
    LET sentences == StrippedSentences(t)
    IN  [k \in 1..Len(sentences) |->
            Str(VttCue(VttTimeOf(FallbackStart(sentences, k)).s,
                       VttTimeOf(FloatAdd(FallbackStart(sentences, k),
                                          EstimatedDuration(sentences[k]))).s,
                       RestorePunctuation(sentences[k])))]

\* Truth of  key in result and result[key]  for a list.
HasNonEmpty(d, key) == key \in DOMAIN d /\ Len(d[key]) > 0

\* The if / elif / else of _format_as_srt with segments tried first.
SrtSourceSegmentsFirst(r) ==
    IF HasNonEmpty(r, "segments") THEN "segments"
    ELSE IF HasNonEmpty(r, "formatted_segments") THEN "formatted_segments"
    ELSE "text"

\* Which branch of the if / elif / else of _format_as_srt runs.
SrtSource(r) ==
    IF HasNonEmpty(r, "formatted_segments") THEN "formatted_segments"
    ELSE IF HasNonEmpty(r, "segments") THEN "segments"
    ELSE "text"

\* Which branch of the if / elif / else of _format_as_vtt runs.
VttSource(r) ==
    IF HasNonEmpty(r, "formatted_segments") THEN "formatted_segments"
    ELSE IF HasNonEmpty(r, "segments") THEN "segments"
    ELSE "text"

_format_as_srt(r) ==
    IF SrtSource(r) = "formatted_segments"
    THEN Accumulate(<<>>, [k \in 1..Len(r.formatted_segments) |->
                              Tier1SrtCue(r.formatted_segments[k])])
    ELSE IF SrtSource(r) = "segments"
    THEN Accumulate(<<>>, [k \in 1..Len(r.segments) |->
                              Tier2SrtCue(k, r.segments[k])])
    ELSE Accumulate(<<>>, Tier3Srt(Get(r, "text", <<>>)))

_format_as_vtt(r) ==
    IF VttSource(r) = "formatted_segments"
    THEN Accumulate(WebVttHeader, [k \in 1..Len(r.formatted_segments) |->
                                      Tier1VttCue(r.formatted_segments[k])])
    ELSE IF VttSource(r) = "segments"
    THEN Accumulate(WebVttHeader, [k \in 1..Len(r.segments) |->
                                      Tier2VttCue(k, r.segments[k])])
    ELSE Accumulate(WebVttHeader, Tier3Vtt(Get(r, "text", <<>>)))

(***************************************************************************)
(* ASRTranscriber.format_transcription_output                              *)
(***************************************************************************)
FmtText == <<"t", "e", "x", "t">>
FmtSrt  == <<"s", "r", "t">>
FmtVtt  == <<"v", "t", "t">>
FmtJson == <<"j", "s", "o", "n">>

\* The prefix of the failure message, and the default error text.
TranscriptionFailedPrefix ==
    <<"u8F6C", "u5F55", "u5931", "u8D25", ":", " ">>
UnknownError == <<"u672A", "u77E5", "u9519", "u8BEF">>

\* format_transcription_output without its test of result["success"].
format_transcription_output_unchecked(r, fmt) ==
    IF "success" \notin DOMAIN r THEN KeyError("success")
    ELSE IF fmt = FmtText
    THEN IF "text" \in DOMAIN r THEN Str(r.text) ELSE KeyError("text")
    ELSE IF fmt = FmtSrt THEN _format_as_srt(r)
    ELSE IF fmt = FmtVtt THEN _format_as_vtt(r)
    ELSE IF fmt = FmtJson THEN JsonOf(r)
    ELSE IF "text" \in DOMAIN r THEN Str(r.text) ELSE KeyError("text")

format_transcription_output(r, fmt) ==
    IF "success" \notin DOMAIN r THEN KeyError("success")
    ELSE IF ~r.success
    THEN Str(TranscriptionFailedPrefix \o Get(r, "error", UnknownError))
    ELSE IF fmt = FmtText
    THEN IF "text" \in DOMAIN r THEN Str(r.text) ELSE KeyError("text")
    ELSE IF fmt = FmtSrt THEN _format_as_srt(r)
    ELSE IF fmt = FmtVtt THEN _format_as_vtt(r)
    ELSE IF fmt = FmtJson THEN JsonOf(r)
    ELSE IF "text" \in DOMAIN r THEN Str(r.text) ELSE KeyError("text")

(***************************************************************************)
(* mcp_server.format_transcription_output, format_srt_time and             *)
(* format_vtt_time                                                         *)
(***************************************************************************)
format_vtt_time(s) ==
    LET hours   == FloatFloorDivInt(s, 3600)
        minutes == FloatFloorDivInt(FloatModInt(s, 3600), 60)
        secs    == FloatModInt(s, 60)
    IN  Fmt02d(hours) \o <<":">> \o Fmt02d(minutes) \o <<":">> \o Fmt06_3f(secs)

\* str.replace('.', ',')
ReplaceDots(s) == [k \in 1..Len(s) |-> IF s[k] = "." THEN "," ELSE s[k]]

format_srt_time(s) ==
    LET hours   == FloatFloorDivInt(s, 3600)
        minutes == FloatFloorDivInt(FloatModInt(s, 3600), 60)
        secs    == FloatModInt(s, 60)
    IN  ReplaceDots(Fmt02d(hours) \o <<":">> \o Fmt02d(minutes) \o <<":">>
                        \o Fmt06_3f(secs))

\* The two on the seconds the inputs below hold, computed once.
McpSrtTimeOfKnown == [x \in KnownSeconds |-> format_srt_time(x)]

McpVttTimeOfKnown == [x \in KnownSeconds |-> format_vtt_time(x)]

\* format_srt_time(v), v a float or None
McpSrtTimeOf(v) ==
    IF v = NoneF THEN NoneFloorDivError
    ELSE IF v \in KnownSeconds THEN Str(McpSrtTimeOfKnown[v])
    ELSE Str(format_srt_time(v))

\* format_vtt_time(v), v a float or None
McpVttTimeOf(v) ==
    IF v = NoneF THEN NoneFloorDivError
    ELSE IF v \in KnownSeconds THEN Str(McpVttTimeOfKnown[v])
    ELSE Str(format_vtt_time(v))

\* One pass of the srt loop; k counts from 1.
McpSrtCue(k, segment) ==
    IF ~IsDict(segment) THEN StrIndexError
    ELSE IF "start" \notin DOMAIN segment THEN KeyError("start")
    ELSE IF McpSrtTimeOf(segment.start).kind = "raise"
    THEN McpSrtTimeOf(segment.start)
    ELSE IF "end" \notin DOMAIN segment THEN KeyError("end")
    ELSE IF McpSrtTimeOf(segment.end).kind = "raise"
    THEN McpSrtTimeOf(segment.end)
    ELSE IF "text" \notin DOMAIN segment THEN KeyError("text")
    ELSE Str(SrtCue(k, McpSrtTimeOf(segment.start).s,
                    McpSrtTimeOf(segment.end).s, Strip(segment.text)))

\* One pass of the vtt loop.
McpVttCue(segment) ==
    IF ~IsDict(segment) THEN StrIndexError
    ELSE IF "start" \notin DOMAIN segment THEN KeyError("start")
    ELSE IF McpVttTimeOf(segment.start).kind = "raise"
    THEN McpVttTimeOf(segment.start)
    ELSE IF "end" \notin DOMAIN segment THEN KeyError("end")
    ELSE IF McpVttTimeOf(segment.end).kind = "raise"
    THEN McpVttTimeOf(segment.end)
    ELSE IF "text" \notin DOMAIN segment THEN KeyError("text")
    ELSE Str(VttCue(McpVttTimeOf(segment.start).s,
                    McpVttTimeOf(segment.end).s, Strip(segment.text)))

UnsupportedFormatPrefix ==
    <<"u4E0D", "u652F", "u6301", "u7684", "u8F93", "u51FA", "u683C", "u5F0F", ":", " ">>
FormattingFailedPrefix ==
    <<"u683C", "u5F0F", "u5316", "u8F93", "u51FA", "u5931", "u8D25", ":", " ">>

\* The body of the try block.
McpFormatBody(r, fmt, video_info) ==
    IF fmt = FmtText THEN Str(Get(r, "text", <<>>))
    ELSE IF fmt = FmtJson
    THEN JsonOf([video_info |-> video_info, transcription |-> r])
    ELSE IF fmt = FmtSrt
    THEN LET segs == Get(r, "segments", <<>>)
         IN  Accumulate(<<>>, [k \in 1..Len(segs) |-> McpSrtCue(k, segs[k])])
    ELSE IF fmt = FmtVtt
    THEN LET segs == Get(r, "segments", <<>>)
         IN  Accumulate(WebVttHeader,
                        [k \in 1..Len(segs) |-> McpVttCue(segs[k])])
    ELSE Str(UnsupportedFormatPrefix \o fmt)

\* try: ... except Exception as e: return the prefix and str(e)
mcp_format_transcription_output(r, fmt, video_info) ==
    IF McpFormatBody(r, fmt, video_info).kind = "raise"
    THEN Str(FormattingFailedPrefix \o McpFormatBody(r, fmt, video_info).msg)
    ELSE McpFormatBody(r, fmt, video_info)

(***************************************************************************)
(* Rendering: a result dict and a format, through both entry points.       *)
(***************************************************************************)
MaxSegments  == 2
MaxFormatted == 1

\* Items of result["segments"]: two timed segments, a plain string, a
\* segment whose start and end are None, and one without start and end.
SegmentHello  == [text  |-> <<"u4F60", "u597D", "u3002">>,
                  start |-> MsToSeconds(0), end |-> MsToSeconds(1200)]
SegmentBye    == [text  |-> <<"u518D", "u89C1", "uFF01">>,
                  start |-> MsToSeconds(1300), end |-> MsToSeconds(2500)]
SegmentString == [pystr |-> <<"d">>]
SegmentNoneTimes == [text |-> <<"n">>, start |-> NoneF, end |-> NoneF]
SegmentUntimed   == [text |-> <<"c", " ">>]

SegmentChoices ==
    {SegmentHello, SegmentBye, SegmentString, SegmentNoneTimes, SegmentUntimed}

\* Items of result["formatted_segments"]: a complete entry, whose index is
\* not its position, and one holding a text only.
FormattedComplete == [index |-> 7, start_time |-> MsToSeconds(500),
                      end_time |-> MsToSeconds(900), text |-> <<"f">>]
FormattedBare     == [text |-> <<"g">>]

FormattedChoices == {FormattedComplete, FormattedBare}

SpokenText == <<"u4F60", "u597D", "u3002", " ", "b", "y", "e">>

TextChoices == {<<>>, SpokenText}

FormatChoices == {FmtText, FmtSrt, FmtVtt, FmtJson, <<"x", "m", "l">>}

\* The keys a result may lack; text is always there.
OptionalKeys == {"success", "error", "segments", "formatted_segments"}

ResultChoices ==
    {[k \in keys \cup {"text"} |-> full[k]] :
        keys \in SUBSET OptionalKeys,
        full \in [success            : BOOLEAN,
                  error              : {<<"e">>},
                  text               : TextChoices,
                  segments           : SeqsUpTo(SegmentChoices, MaxSegments),
                  formatted_segments : SeqsUpTo(FormattedChoices,
                                                MaxFormatted)]}

\* Texts for results without timestamps: up to MaxFallbackPieces pieces,
\* each a letter, a sentence of nine letters, a delimiter or a space.
MaxFallbackPieces == 4

FallbackPieces ==
    {<<"a">>, <<"b", "b", "b", "b", "b", "b", "b", "b", "b">>, <<"u3002">>,
     <<"!">>, <<" ">>}

FallbackTexts ==
    {Flatten(ps) : ps \in SeqsUpTo(FallbackPieces, MaxFallbackPieces)}

\* What transcribe_audio returns when the segmenter finds no segment.
FallbackResults ==
    {[success |-> TRUE, text |-> t, segments |-> <<>>] : t \in FallbackTexts}

\* The video_info argument of the server's renderer.
VideoInfo == [title |-> <<"v">>]

RenderInit ==
    /\ pc = "render"
    /\ result \in ResultChoices \cup FallbackResults
    /\ output_format \in FormatChoices
    /\ asr_out = NoOutput /\ mcp_out = NoOutput
    /\ CleanIdle /\ TimeIdle /\ SegIdle /\ TxIdle /\ RunIdle

\* asr.format_transcription_output(result, output_format)
RenderAsr ==
    /\ pc = "render" /\ asr_out.kind = "none"
    /\ asr_out' = format_transcription_output(result, output_format)
    /\ UNCHANGED <<pc, result, output_format, mcp_out, cleanVars, timeVars,
                   segVars, txVars, runVars>>

\* format_transcription_output(result, output_format, video_info) of the
\* server
RenderMcp ==
    /\ pc = "render" /\ mcp_out.kind = "none"
    /\ mcp_out' = mcp_format_transcription_output(result, output_format,
                                                  VideoInfo)
    /\ UNCHANGED <<pc, result, output_format, asr_out, cleanVars, timeVars,
                   segVars, txVars, runVars>>

RenderNext == RenderAsr \/ RenderMcp

SpecRender == RenderInit /\ [][RenderNext]_vars

(***************************************************************************)
(* Properties of rendering.                                                *)
(***************************************************************************)
\* The dict r without the keys outside keys.
OnlyKeys(r, keys) == [k \in (DOMAIN r) \cap keys |-> r[k]]

\* sub in s, for strings
Contains(s, sub) ==
    \E k \in 0..(Len(s) - Len(sub)) : SubSeq(s, k + 1, k + Len(sub)) = sub

AsrRendered == pc = "render" /\ asr_out.kind # "none"
McpRendered == pc = "render" /\ mcp_out.kind # "none"

Succeeded(r) == "success" \in DOMAIN r /\ r.success

CompleteEntry(e) ==
    /\ {"index", "start_time", "end_time", "text"} \subseteq DOMAIN e
    /\ e.start_time # NoneF /\ e.end_time # NoneF

\* C5: in the SRT and VTT rendering of a successful result, non-empty
\* formatted_segments alone decide the output (segments and text may be
\* taken away without changing it, and the SRT cues carry each entry's own
\* index, times and text); otherwise non-empty segments alone decide it;
\* the text is rendered only when both are absent or empty.
C5_TierPriority ==
    (AsrRendered /\ Succeeded(result) /\ output_format \in {FmtSrt, FmtVtt})
    => /\ HasNonEmpty(result, "formatted_segments")
          => /\ asr_out = format_transcription_output(
                              OnlyKeys(result, {"success", "formatted_segments"}),
                              output_format)
             /\ (/\ output_format = FmtSrt
                 /\ \A k \in DOMAIN result.formatted_segments :
                        CompleteEntry(result.formatted_segments[k]))
                => /\ asr_out.kind = "str"
                   /\ asr_out.s =
                        Flatten([k \in DOMAIN result.formatted_segments |->
                           LET e == result.formatted_segments[k]
                           IN  SrtCue(e.index,
                                      _seconds_to_srt_time(e.start_time),
                                      _seconds_to_srt_time(e.end_time),
                                      e.text)])
       /\ (~HasNonEmpty(result, "formatted_segments")
              /\ HasNonEmpty(result, "segments"))
          => asr_out = format_transcription_output(
                           OnlyKeys(result, {"success", "segments"}),
                           output_format)
       /\ (~HasNonEmpty(result, "formatted_segments")
              /\ ~HasNonEmpty(result, "segments"))
          => asr_out = format_transcription_output(
                           OnlyKeys(result, {"success", "text"}),
                           output_format)

\* C5 happens: SRT was rendered for a successful result holding a complete
\* formatted entry, a timed segment of other times, and a text.
C5_Witness ==
    /\ AsrRendered /\ Succeeded(result) /\ output_format = FmtSrt
    /\ HasNonEmpty(result, "formatted_segments")
    /\ result.formatted_segments = <<FormattedComplete>>
    /\ HasNonEmpty(result, "segments")
    /\ result.segments[1] = SegmentHello
    /\ result.text = SpokenText
    /\ asr_out.kind = "str"

\* The SRT the documented example asks for.
ExampleSrt ==
    SrtCue(1, <<"0", "0", ":", "0", "0", ":", "0", "0", ",", "0", "0", "0">>,
           <<"0", "0", ":", "0", "0", ":", "0", "1", ",", "2", "0", "0">>,
           SegmentHello.text)
        \o SrtCue(2, <<"0", "0", ":", "0", "0", ":", "0", "1", ",", "3", "0", "0">>,
                  <<"0", "0", ":", "0", "0", ":", "0", "2", ",", "5", "0", "0">>,
                  SegmentBye.text)

\* C6: SRT for a successful result without formatted_segments whose n >= 1
\* segments all carry start and end is n cues, the k-th numbered k with
\* the formatted start and end and the segment's text; for the segments
\* (0.0, 1.2) and (1.3, 2.5) the time-code lines are
\* 00:00:00,000 --> 00:00:01,200 and 00:00:01,300 --> 00:00:02,500.
C6_Tier2SrtCues ==
    (/\ AsrRendered /\ Succeeded(result) /\ output_format = FmtSrt
     /\ ~HasNonEmpty(result, "formatted_segments")
     /\ HasNonEmpty(result, "segments")
     /\ \A k \in DOMAIN result.segments :
            /\ {"start", "end", "text"} \subseteq DOMAIN result.segments[k]
            /\ result.segments[k].start # NoneF
            /\ result.segments[k].end # NoneF)
    => /\ asr_out.kind = "str"
       /\ asr_out.s =
            Flatten([k \in DOMAIN result.segments |->
                       SrtCue(k,
                              _seconds_to_srt_time(result.segments[k].start),
                              _seconds_to_srt_time(result.segments[k].end),
                              result.segments[k].text)])
       /\ result.segments = <<SegmentHello, SegmentBye>>
          => asr_out.s = ExampleSrt

\* C8: for a result whose success is false the output is the failure
\* prefix followed by the error, or by the default error text when there is
\* none, whatever the format; it holds no WEBVTT header, no cue, not the
\* text and not the text of a segment.
C8_FailureShortCircuit ==
    (AsrRendered /\ "success" \in DOMAIN result /\ ~result.success)
    => /\ asr_out.kind = "str"
       /\ asr_out.s = TranscriptionFailedPrefix
                         \o (IF "error" \in DOMAIN result THEN result.error
                             ELSE UnknownError)
       /\ ~Contains(asr_out.s, <<"W", "E", "B", "V", "T", "T">>)
       /\ ~Contains(asr_out.s, Arrow)
       /\ result.text # <<>> => ~Contains(asr_out.s, result.text)
       /\ \A k \in DOMAIN Get(result, "segments", <<>>) :
              LET segment == result.segments[k]
              IN  ~Contains(asr_out.s,
                            IF IsDict(segment) THEN segment.text
                            ELSE segment.pystr)

\* C8 happens: VTT was asked of a failed result without an error that
\* holds a text, segments and formatted_segments.
C8_Witness ==
    /\ AsrRendered /\ "success" \in DOMAIN result /\ ~result.success
    /\ "error" \notin DOMAIN result
    /\ output_format = FmtVtt
    /\ result.text = SpokenText
    /\ HasNonEmpty(result, "segments")
    /\ HasNonEmpty(result, "formatted_segments")

\* C9: neither entry point raises; each returns a string for every result
\* and every format.
C9_NeverRaises ==
    /\ AsrRendered => Returned(asr_out)
    /\ McpRendered => Returned(mcp_out)

\* C10: for a successful result and a format that is none of text, srt,
\* vtt and json, each entry point returns exactly the text of the result.
C10_UnsupportedFormatGivesText ==
    (Succeeded(result)
        /\ output_format \notin {FmtText, FmtSrt, FmtVtt, FmtJson})
    => /\ AsrRendered => asr_out = Str(result.text)
       /\ McpRendered => mcp_out = Str(result.text)

\* A result without formatted_segments and without segments.
TimestampFree(r) ==
    ~HasNonEmpty(r, "formatted_segments") /\ ~HasNonEmpty(r, "segments")

\* C11: SRT and VTT of a successful result that has no formatted_segments,
\* no segments and a non-empty text hold at least one timed cue.
C11_FallbackYieldsCue ==
    (/\ AsrRendered /\ Succeeded(result)
     /\ output_format \in {FmtSrt, FmtVtt}
     /\ TimestampFree(result)
     /\ result.text # <<>>)
    => asr_out.kind = "str" /\ Contains(asr_out.s, Arrow)

\* The pieces of s between the characters of D, in order.
SplitAt(s, D) ==
    LET P == {k \in 1..Len(s) : s[k] \in D}
        Nth(j) == IF j = 0 THEN 0
                  ELSE IF j = Cardinality(P) + 1 THEN Len(s) + 1
                  ELSE CHOOSE k \in P : Cardinality({m \in P : m < k}) = j - 1
    IN  [j \in 1..(Cardinality(P) + 1) |->
            SubSeq(s, Nth(j - 1) + 1, Nth(j) - 1)]

\* s has the shape dd:dd:dd<sep>ddd.
TimeCodeShape(s, sep) ==
    /\ Len(s) = 12
    /\ s[3] = ":" /\ s[6] = ":" /\ s[9] = sep
    /\ \A k \in {1, 2, 4, 5, 7, 8, 10, 11, 12} : IsDigit(s[k])

\* l is a line  <time code> --> <time code>.
IsTimeLine(l, sep) ==
    /\ Len(l) = 29
    /\ TimeCodeShape(SubSeq(l, 1, 12), sep)
    /\ SubSeq(l, 13, 17) = Arrow
    /\ TimeCodeShape(SubSeq(l, 18, 29), sep)

\* s is the line WEBVTT and a blank line, then blocks of a time-code line,
\* one text line and a blank line.
VttFramed(s) ==
    /\ Len(s) >= Len(WebVttHeader)
    /\ SubSeq(s, 1, Len(WebVttHeader)) = WebVttHeader
    /\ LET lines == SplitAt(SubSeq(s, Len(WebVttHeader) + 1, Len(s)), {"\n"})
       IN  /\ Len(lines) % 3 = 1
           /\ lines[Len(lines)] = <<>>
           /\ \A j \in 0..((Len(lines) \div 3) - 1) :
                  /\ IsTimeLine(lines[3 * j + 1], ".")
                  /\ lines[3 * j + 3] = <<>>

\* C12: VTT of a successful result, whichever source gives the cues and
\* also when there is none, is the line WEBVTT, a blank line, and then for
\* each cue a time-code line, a text line and a blank line, with no line of
\* a sequence number.
C12_VttFraming ==
    (AsrRendered /\ Succeeded(result) /\ output_format = FmtVtt)
    => asr_out.kind = "str" /\ VttFramed(asr_out.s)

\* The same for the results the renderer returns a string for.
VttFramedWhenReturned ==
    (AsrRendered /\ Succeeded(result) /\ output_format = FmtVtt
        /\ asr_out.kind = "str")
    => VttFramed(asr_out.s)

(***************************************************************************)
(* ASRTranscriber._create_segments_from_timestamps as a function of its    *)
(* arguments: the loop over zip(words, timestamps), pass by pass.          *)
(***************************************************************************)
\* current_segment and segments after the first k passes of the loop.
RECURSIVE SegLoop(_, _)
SegLoop(args, k) ==
    IF k = 0 THEN [cur |-> EmptySegment, segs |-> <<>>]
    ELSE LET prev == SegLoop(args, k - 1)
             cur  == AddWord(prev.cur, args.words[k], args.timestamps[k])
         IN  IF IsMarkupWord(args.words[k]) THEN prev
             ELSE IF ~ClosesSegment(args.words[k], k - 1, args.words)
             THEN [cur |-> cur, segs |-> prev.segs]
             ELSE [cur  |-> EmptySegment,
                   segs |-> IF Strip(cur.text) # <<>>
                            THEN Append(prev.segs, cur)
                            ELSE prev.segs]

_create_segments_from_timestamps(txt, timestamps, words) ==
    IF SegDegenerate(timestamps, words) THEN <<>>
    ELSE SegLoop([timestamps |-> timestamps, words |-> words],
                 Min2(Len(words), Len(timestamps))).segs

(***************************************************************************)
(* ASRTranscriber.transcribe_audio and _get_audio_info                     *)
(***************************************************************************)
AudioMissingPrefix == <<"u97F3", "u9891", "u6587", "u4EF6", "u4E0D", "u5B58", "u5728", ":", " ">>
ModelNotLoadedError == <<"u6A21", "u578B", "u672A", "u6B63", "u786E", "u52A0", "u8F7D">>
AudioInfoFailedPrefix ==
    <<"u65E0", "u6CD5", "u8BFB", "u53D6", "u97F3", "u9891", "u6587", "u4EF6", "u4FE1", "u606F", ":", " ">>
NoResultError == <<"u672A", "u83B7", "u53D6", "u5230", "u8F6C", "u5F55", "u7ED3", "u679C">>

AudioPath == <<"a", ".", "w", "a", "v">>

\* The dict of a failed transcription.
Failure(error) ==
    [success |-> FALSE, error |-> error, text |-> <<>>, segments |-> <<>>]

\* What lines 127-153 do with result[0]; an item that is no dict has no
\* get (the interpreter's message is kept as one symbol).
ProcessTranscription(item) ==
    IF ~IsDict(item)
    THEN Raise("AttributeError", <<"'str' object has no attribute 'get'">>)
    ELSE LET cleaned_text == _clean_text(Get(item, "text", <<>>))
         IN  [kind  |-> "return",
              value |-> [success    |-> TRUE,
                         text       |-> cleaned_text,
                         segments   |->
                             _create_segments_from_timestamps(
                                 cleaned_text, Get(item, "timestamp", <<>>),
                                 Get(item, "words", <<>>)),
                         language   |-> Get(item, "language",
                                            <<"u", "n", "k", "n", "o", "w", "n">>),
                         duration   |-> Get(item, "duration", 0),
                         confidence |-> Get(item, "confidence", 0)]]

\* if not os.path.exists(audio_path): raise FileNotFoundError(...)
TxCheckPath ==
    /\ pc = "tx_call"
    /\ IF tx_env.exists
       THEN pc' = "tx_model" /\ UNCHANGED tx_out
       ELSE /\ pc' = "tx_done"
            /\ tx_out' = Raise("FileNotFoundError",
                               AudioMissingPrefix \o AudioPath)
    /\ UNCHANGED <<tx_env, cleanVars, timeVars, segVars, renderVars, runVars>>

\* if self.model is None: raise Exception(...)
TxCheckModel ==
    /\ pc = "tx_model"
    /\ IF tx_env.model_loaded
       THEN pc' = "tx_info" /\ UNCHANGED tx_out
       ELSE pc' = "tx_done" /\ tx_out' = Raise("Exception", ModelNotLoadedError)
    /\ UNCHANGED <<tx_env, cleanVars, timeVars, segVars, renderVars, runVars>>

\* audio_info = self._get_audio_info(audio_path): what reading the file
\* raises is raised again as an Exception, which nothing catches.
TxAudioInfo ==
    /\ pc = "tx_info"
    /\ IF tx_env.audio_info.kind = "raise"
       THEN /\ pc' = "tx_done"
            /\ tx_out' = Raise("Exception",
                               AudioInfoFailedPrefix \o tx_env.audio_info.msg)
       ELSE pc' = "tx_generate" /\ UNCHANGED tx_out
    /\ UNCHANGED <<tx_env, cleanVars, timeVars, segVars, renderVars, runVars>>

\* The try block: self.model.generate(...) and the handling of its result.
TxGenerate ==
    /\ pc = "tx_generate"
    /\ pc' = "tx_done"
    /\ tx_out' =
         IF tx_env.engine.kind = "raise"
         THEN [kind  |-> "return",
               value |-> Failure(TranscriptionFailedPrefix
                                     \o tx_env.engine.msg)]
         ELSE IF tx_env.engine.kind = "list" /\ Len(tx_env.engine.items) > 0
         THEN IF ProcessTranscription(tx_env.engine.items[1]).kind = "raise"
              THEN [kind  |-> "return",
                    value |-> Failure(
                        TranscriptionFailedPrefix
                            \o ProcessTranscription(tx_env.engine.items[1]).msg)]
              ELSE ProcessTranscription(tx_env.engine.items[1])
         ELSE [kind |-> "return", value |-> Failure(NoResultError)]
    /\ UNCHANGED <<tx_env, cleanVars, timeVars, segVars, renderVars, runVars>>

(***************************************************************************)
(* ASRTranscriber.transcribe_with_timestamps                               *)
(***************************************************************************)
\* A variant that numbers the entries from 0.
FormattedSegmentZeroBased(k, segment) ==
    IF IsDict(segment)
    THEN [index      |-> k - 1,
          start_time |-> Get(segment, "start", IntToFloat(0)),
          end_time   |-> Get(segment, "end", IntToFloat(0)),
          text       |-> Get(segment, "text", <<>>),
          confidence |-> Get(segment, "confidence", 0)]
    ELSE [index |-> k - 1, start_time |-> IntToFloat(0),
          end_time |-> IntToFloat(0), text |-> segment.pystr, confidence |-> 0]

\* The entry appended for segment number k (k is i + 1); the default 0 of
\* a missing start or end is kept as the float it is formatted as.
FormattedSegment(k, segment) ==
    IF IsDict(segment)
    THEN [index      |-> k,
          start_time |-> Get(segment, "start", IntToFloat(0)),
          end_time   |-> Get(segment, "end", IntToFloat(0)),
          text       |-> Get(segment, "text", <<>>),
          confidence |-> Get(segment, "confidence", 0)]
    ELSE [index |-> k, start_time |-> IntToFloat(0),
          end_time |-> IntToFloat(0), text |-> segment.pystr, confidence |-> 0]

\* The rest of transcribe_with_timestamps once transcribe_audio is over:
\* what it raised goes on; a successful result with segments gets its
\* formatted_segments; any other result is returned as it is.
TxWithTimestamps ==
    /\ pc = "tx_done"
    /\ pc' = "tx_ts_done"
    /\ tx_out' =
         IF tx_out.kind = "return" /\ tx_out.value.success
                /\ Len(tx_out.value.segments) > 0
         THEN [kind  |-> "return",
               value |->
                   [k \in DOMAIN tx_out.value \cup {"formatted_segments"} |->
                       IF k = "formatted_segments"
                       THEN [n \in 1..Len(tx_out.value.segments) |->
                                FormattedSegment(n, tx_out.value.segments[n])]
                       ELSE tx_out.value[k]]]
         ELSE tx_out
    /\ UNCHANGED <<tx_env, cleanVars, timeVars, segVars, renderVars, runVars>>

(***************************************************************************)
(* transcribe_audio on its own: the file, the model, the audio reader and  *)
(* the engine each behave in every way they can.                           *)
(***************************************************************************)
MaxEngineWords == 2

EngineWordChoices == {<<"a">>, <<"u3002">>, <<"<", "|", "z", "|", ">">>}

RawTextChoices == {PyNone, <<"<", "|", "z", "h", "|", ">", "a", " ", "u3002">>}

\* result[0]: a dict with any of the keys text, timestamp and words, or a
\* str.
EngineItems ==
    {[k \in keys |-> full[k]] :
        keys \in SUBSET {"text", "timestamp", "words"},
        full \in [text      : RawTextChoices,
                  timestamp : SeqsUpTo(TimestampChoices, MaxEngineWords),
                  words     : SeqsUpTo(EngineWordChoices, MaxEngineWords)]}
        \cup {[pystr |-> <<"x">>]}

\* What self.model.generate does: raises, returns something that is no
\* list (None), or returns a list.
EngineOutcomes ==
    {[kind |-> "raise", msg |-> m] : m \in {<<>>, <<"b", "o", "o", "m">>}}
        \cup {[kind |-> "none"], [kind |-> "list", items |-> <<>>]}
        \cup {[kind |-> "list", items |-> <<item>>] : item \in EngineItems}

AudioInfoOutcomes == {[kind |-> "ok"], [kind |-> "raise", msg |-> <<"e">>]}

TxInit ==
    /\ pc = "tx_call"
    /\ tx_env \in [exists       : BOOLEAN,
                   model_loaded : BOOLEAN,
                   audio_info   : AudioInfoOutcomes,
                   engine       : EngineOutcomes]
    /\ tx_out = NoOutput
    /\ CleanIdle /\ TimeIdle /\ SegIdle /\ RenderIdle /\ RunIdle

TxNext ==
    \/ TxCheckPath \/ TxCheckModel \/ TxAudioInfo \/ TxGenerate
    \/ TxWithTimestamps

SpecTranscribe == TxInit /\ [][TxNext]_vars

\* The call fails: the model is missing, the audio cannot be read, the
\* engine raises, or it returns nothing usable.
TxFails ==
    \/ ~tx_env.model_loaded
    \/ tx_env.audio_info.kind = "raise"
    \/ tx_env.engine.kind \in {"raise", "none"}
    \/ tx_env.engine.kind = "list" /\ Len(tx_env.engine.items) = 0

\* C13: when the audio file exists, transcribe_audio raises nothing, and
\* every failure is returned as a result with success false, a non-empty
\* error, the empty text and no segments; when the file does not exist the
\* call raises before anything else.
C13_FailuresAreData ==
    pc = "tx_done"
    => /\ tx_env.exists
          => /\ tx_out.kind = "return"
             /\ TxFails => /\ ~tx_out.value.success
                           /\ tx_out.value.error # <<>>
                           /\ tx_out.value.text = <<>>
                           /\ tx_out.value.segments = <<>>
       /\ ~tx_env.exists
          => tx_out.kind = "raise" /\ tx_out.exc = "FileNotFoundError"

(***************************************************************************)
(* Properties of the segmenter                                             *)
(***************************************************************************)
SegReturned == pc = "seg_done"

\* The segmenter was given as many words as timestamps, and at least one.
SegProper == ~SegDegenerate(seg_args.timestamps, seg_args.words)

IsTerminator(w) == w \in SegmentTerminators

\* The words of a stream that are not markup, in order.
NonMarkup(ws) == SelectSeq(ws, LAMBDA w : ~IsMarkupWord(w))

\* The first position of nm holding a terminal punctuation word, or the
\* last position when there is none.
FirstBoundary(nm) ==
    IF \E k \in 1..Len(nm) : IsTerminator(nm[k])
    THEN CHOOSE k \in 1..Len(nm) :
             /\ IsTerminator(nm[k])
             /\ \A j \in 1..(k - 1) : ~IsTerminator(nm[j])
    ELSE Len(nm)

\* The words nm cut after every terminal punctuation word, the rest after
\* the last one being a group of its own.
RECURSIVE WordGroups(_)
WordGroups(nm) ==
    IF nm = <<>> THEN <<>>
    ELSE <<SubSeq(nm, 1, FirstBoundary(nm))>>
             \o WordGroups(SubSeq(nm, FirstBoundary(nm) + 1, Len(nm)))

\* The word lists of the returned segments, without the times.
ReturnedWords ==
    [j \in 1..Len(segments) |->
        [k \in 1..Len(segments[j].words) |-> segments[j].words[k].word]]

\* C14: for as many words as timestamps, the words lists of the returned
\* segments are, in order, the groups of non-markup words that end at a
\* terminal punctuation word or at the end of the stream, without the
\* groups whose text is whitespace only: no other word is lost, and the
\* words after the last punctuation form a last segment whatever the last
\* token is.
C14_NoWordLost ==
    (SegReturned /\ SegProper)
    => ReturnedWords
         = SelectSeq(WordGroups(NonMarkup(seg_args.words)),
                     LAMBDA g : Strip(Flatten(g)) # <<>>)

\* The same for the streams whose last word is not markup.
NoWordLostUnlessMarkupLast ==
    (/\ SegReturned /\ SegProper
     /\ ~IsMarkupWord(seg_args.words[Len(seg_args.words)]))
    => ReturnedWords
         = SelectSeq(WordGroups(NonMarkup(seg_args.words)),
                     LAMBDA g : Strip(Flatten(g)) # <<>>)

\* a <= b, for two floats.
FloatLeq(a, b) == ~FloatGreater(a, b)

\* Every token has 0 <= start_ms <= end_ms.
TokensWellFormed ==
    \A k \in 1..Len(seg_args.timestamps) :
        /\ 0 <= seg_args.timestamps[k][1]
        /\ seg_args.timestamps[k][1] <= seg_args.timestamps[k][2]

\* C15: whatever the order of the tokens, each with 0 <= start_ms <=
\* end_ms, every returned segment has a start and an end, the start not
\* after the end, and a text that is not whitespace only.
C15_SegmentTiming ==
    (SegReturned /\ TokensWellFormed)
    => \A j \in 1..Len(segments) :
           /\ segments[j].start # NoneF
           /\ segments[j].end # NoneF
           /\ FloatLeq(segments[j].start, segments[j].end)
           /\ Strip(segments[j].text) # <<>>

\* Each token starts no earlier than the token before it ends.
TokensAscending ==
    /\ TokensWellFormed
    /\ \A k \in 2..Len(seg_args.timestamps) :
           seg_args.timestamps[k - 1][2] <= seg_args.timestamps[k][1]

\* C16: for tokens in ascending order of time, the returned segments are
\* in ascending order and do not overlap: each starts no later than it
\* ends, and ends no later than the next one starts.
C16_SegmentsAscending ==
    (SegReturned /\ TokensAscending)
    => /\ \A j \in 1..Len(segments) :
              FloatLeq(segments[j].start, segments[j].end)
       /\ \A j \in 2..Len(segments) :
              FloatLeq(segments[j - 1].end, segments[j].start)

\* C16 happens: two segments were returned for tokens in ascending order,
\* the first of more than one word.
C16_Witness ==
    /\ SegReturned /\ TokensAscending
    /\ Len(segments) >= 2
    /\ Len(segments[1].words) >= 2

\* The last word of a returned segment.
LastWord(seg) == seg.words[Len(seg.words)].word

\* C17: in every returned segment a terminal punctuation word is the last
\* word or absent; every returned segment but the last ends with one; a
\* stream with k punctuation words gives at most k + 1 segments; the
\* two-sentence example gives exactly two segments, the first ending when
\* its full stop ends, the second with the text of the last two words and
\* ending when the last word ends.
C17_PunctuationBoundary ==
    SegReturned
    => /\ \A j \in 1..Len(segments) :
              \A k \in 1..(Len(segments[j].words) - 1) :
                  ~IsTerminator(segments[j].words[k].word)
       /\ \A j \in 1..(Len(segments) - 1) : IsTerminator(LastWord(segments[j]))
       /\ Len(segments)
            <= Cardinality({k \in 1..Len(seg_args.words) :
                               IsTerminator(seg_args.words[k])}) + 1
       /\ seg_args = TwoSentences
          => /\ Len(segments) = 2
             /\ segments[1].end = IntTrueDiv(TwoSentences.timestamps[3][2], 1000)
             /\ segments[2].text = <<"u518D", "u89C1">>
             /\ segments[2].end = IntTrueDiv(TwoSentences.timestamps[5][2], 1000)

\* C17 happens: the two-sentence example was segmented.
C17_Witness ==
    /\ SegReturned /\ seg_args = TwoSentences
    /\ Len(segments) = 2
    /\ LastWord(segments[1]) = <<"u3002">>

\* What the loop records for token k.
TokenEntry(k) ==
    [word  |-> seg_args.words[k],
     start |-> MsToSeconds(seg_args.timestamps[k][1]),
     end   |-> MsToSeconds(seg_args.timestamps[k][2])]

\* The tokens lo..hi that are not markup, as the loop records them.
EntriesBetween(lo, hi) ==
    LET kept == SelectSeq([n \in 1..(hi - lo + 1) |-> lo + n - 1],
                          LAMBDA k : ~IsMarkupWord(seg_args.words[k]))
    IN  [n \in 1..Len(kept) |-> TokenEntry(kept[n])]

\* seg is made of the non-markup tokens lo..hi, the first and the last of
\* them not markup: its text joins their words with nothing in between,
\* its start is the first one's and its end the last one's.
MadeOfTokens(seg, lo, hi) ==
    /\ ~IsMarkupWord(seg_args.words[lo]) /\ ~IsMarkupWord(seg_args.words[hi])
    /\ seg.words = EntriesBetween(lo, hi)
    /\ seg.text = Flatten([n \in 1..Len(seg.words) |-> seg.words[n].word])
    /\ seg.start = MsToSeconds(seg_args.timestamps[lo][1])
    /\ seg.end = MsToSeconds(seg_args.timestamps[hi][2])

\* No markup word of the stream is in seg.
FreeOfMarkup(seg) ==
    \A k \in 1..Len(seg_args.words) :
        IsMarkupWord(seg_args.words[k])
        => /\ ~Contains(seg.text, seg_args.words[k])
           /\ \A n \in 1..Len(seg.words) :
                  seg.words[n].word # seg_args.words[k]

\* The loop is about to process a markup word.
AtMarkupWord ==
    /\ pc = "seg_loop" /\ i < ZipLen(seg_args)
    /\ IsMarkupWord(seg_args.words[i + 1])

\* C18: processing a markup word changes nothing of the current segment
\* (nor of the segments already closed); no markup word is in a returned
\* segment's text or words; every returned segment is made of the
\* non-markup words of a stretch of the stream: its text is their
\* concatenation, its start the start of the first and its end the end of
\* the last, in seconds.
C18_MarkupLeavesSegment ==
    /\ [][AtMarkupWord => UNCHANGED <<current_segment, segments>>]_vars
    /\ [](SegReturned
          => \A j \in 1..Len(segments) :
                 /\ FreeOfMarkup(segments[j])
                 /\ \E lo \in 1..ZipLen(seg_args) :
                        \E hi \in lo..ZipLen(seg_args) :
                            MadeOfTokens(segments[j], lo, hi))

\* C18 happens: a segment was returned whose two words have a markup word
\* between them in the stream.
C18_Witness ==
    /\ SegReturned
    /\ Len(segments) = 1 /\ Len(segments[1].words) = 2
    /\ Len(seg_args.words) = 3 /\ IsMarkupWord(seg_args.words[2])
    /\ seg_args.timestamps[1] # seg_args.timestamps[3]

(***************************************************************************)
(* Properties of the fallback rendering                                    *)
(***************************************************************************)
\* The renderer of asr_transcriber returned SRT or VTT built from the text
\* alone.
FallbackRendered ==
    /\ AsrRendered /\ Succeeded(result)
    /\ output_format \in {FmtSrt, FmtVtt}
    /\ TimestampFree(result)
    /\ "text" \in DOMAIN result
    /\ asr_out.kind = "str"

\* The pieces of t between the six sentence delimiters, trimmed, without
\* the empty ones.
TrimmedPieces(t) ==
    LET pieces == SplitAt(t, SentenceDelimiters)
    IN  SelectSeq([k \in 1..Len(pieces) |-> Strip(pieces[k])],
                  LAMBDA p : p # <<>>)

\* The lines of s holding an arrow.
TimeLinesOf(s) == SelectSeq(SplitAt(s, {"\n"}), LAMBDA l : Contains(l, Arrow))

\* 1000 * max(2.0, 0.4 * n)
EstimatedMs(n) == IF 400 * n > 2000 THEN 400 * n ELSE 2000

\* The milliseconds at which cue k starts when cue 1 starts at 0 and each
\* cue lasts EstimatedMs of the length of its piece.
ClockMs(pieces) ==
    LET clock[k \in 1..(Len(pieces) + 1)] ==
            IF k = 1 THEN 0 ELSE clock[k - 1] + EstimatedMs(Len(pieces[k - 1]))
    IN  clock

\* The k-th time line of the output starts at from and ends at to.
CueTimed(k, from, to) ==
    LET l   == TimeLinesOf(asr_out.s)[k]
        sep == IF output_format = FmtSrt THEN "," ELSE "."
    IN  /\ Len(l) = 29
        /\ IsTimeCodeOf(SubSeq(l, 1, 12), sep, from)
        /\ IsTimeCodeOf(SubSeq(l, 18, 29), sep, to)

\* C19: in SRT and VTT built from the text alone the first cue starts at
\* 0, every cue lasts max(2.0, 0.4 * characters of its trimmed piece)
\* seconds, and every later cue starts where the one before it ends.
C19_FallbackTiming ==
    FallbackRendered
    => LET pieces == TrimmedPieces(result.text)
       IN  \A k \in 1..Min2(Len(pieces), Len(TimeLinesOf(asr_out.s))) :
               CueTimed(k, ClockMs(pieces)[k], ClockMs(pieces)[k + 1])

\* The same for VTT alone.
FallbackTimingVtt == output_format = FmtVtt => C19_FallbackTiming

\* The lines of s that follow a line holding an arrow: the texts of the
\* cues.
CueTextsOf(s) ==
    LET lines == SplitAt(s, {"\n"})
        at    == SelectSeq([k \in 1..(Len(lines) - 1) |-> k],
                           LAMBDA k : Contains(lines[k], Arrow))
    IN  [n \in 1..Len(at) |-> lines[at[n] + 1]]

\* C20: in SRT and VTT built from the text alone there is one cue for each
\* piece of the text between the six delimiters that is not empty after
\* trimming, in order; the piece holds no delimiter, and the cue's text is
\* the trimmed piece followed by an ideographic full stop unless the piece
\* ends in a delimiter.
C20_FallbackSentences ==
    FallbackRendered
    => LET pieces == TrimmedPieces(result.text)
           texts  == CueTextsOf(asr_out.s)
       IN  /\ Len(texts) = Len(pieces)
           /\ \A k \in 1..Len(pieces) :
                  /\ \A n \in 1..Len(pieces[k]) :
                         pieces[k][n] \notin SentenceDelimiters
                  /\ texts[k] =
                       IF pieces[k][Len(pieces[k])] \in SentenceDelimiters
                       THEN pieces[k]
                       ELSE pieces[k] \o <<"u3002">>

\* C20 happens: two cues were built from a text that also has a piece
\* that is empty after trimming.
C20_Witness ==
    /\ FallbackRendered
    /\ Len(CueTextsOf(asr_out.s)) = 2
    /\ Len(SplitAt(result.text, SentenceDelimiters)) > 2

(***************************************************************************)
(* Properties of transcribe_with_timestamps                                *)
(***************************************************************************)
\* transcribe_with_timestamps returned a successful result with segments.
TimestampedResult ==
    /\ pc = "tx_ts_done"
    /\ tx_out.kind = "return"
    /\ tx_out.value.success
    /\ tx_out.value.segments # <<>>

\* r without its formatted_segments.
WithoutFormatted(r) == [k \in DOMAIN r \ {"formatted_segments"} |-> r[k]]

\* C21: a successful result of transcribe_with_timestamps with segments
\* has as many formatted_segments as segments, entry i + 1 holding index
\* i + 1 and the start, end and text of segment i + 1, and its SRT is the
\* SRT of the same result without formatted_segments.
C21_TiersAgree ==
    TimestampedResult
    => /\ "formatted_segments" \in DOMAIN tx_out.value
       /\ Len(tx_out.value.formatted_segments) = Len(tx_out.value.segments)
       /\ \A n \in 1..Len(tx_out.value.segments) :
              /\ tx_out.value.formatted_segments[n].index = n
              /\ tx_out.value.formatted_segments[n].start_time
                    = tx_out.value.segments[n].start
              /\ tx_out.value.formatted_segments[n].end_time
                    = tx_out.value.segments[n].end
              /\ tx_out.value.formatted_segments[n].text
                    = tx_out.value.segments[n].text
       /\ _format_as_srt(tx_out.value)
            = _format_as_srt(WithoutFormatted(tx_out.value))

\* C21 happens: a result with two segments was returned and rendered.
C21_Witness ==
    /\ TimestampedResult
    /\ Len(tx_out.value.segments) = 2
    /\ _format_as_srt(tx_out.value).kind = "str"
    /\ Contains(_format_as_srt(tx_out.value).s, <<"2", "\n", "0">>)

(***************************************************************************)
(* SRT against VTT                                                         *)
(***************************************************************************)
\* The time line l of an SRT file as a VTT file writes it.
WithDots(l) == [k \in 1..Len(l) |-> IF k \in {9, 26} THEN "." ELSE l[k]]

\* The two documents hold the same cues: as many, with the same texts in
\* the same order, starting and ending at the same instants.
SameCues(srt, vtt) ==
    /\ Len(TimeLinesOf(srt)) = Len(TimeLinesOf(vtt))
    /\ CueTextsOf(srt) = CueTextsOf(vtt)
    /\ \A k \in 1..Len(TimeLinesOf(srt)) :
           WithDots(TimeLinesOf(srt)[k]) = TimeLinesOf(vtt)[k]

\* C22: for a successful result, what format_transcription_output returns
\* for srt and what it returns for vtt hold the same cues.
C22_SrtVttSameCues ==
    (AsrRendered /\ Succeeded(result) /\ output_format = FmtSrt)
    => /\ asr_out.kind = "str"
       /\ format_transcription_output(result, FmtVtt).kind = "str"
       /\ SameCues(asr_out.s, format_transcription_output(result, FmtVtt).s)

(***************************************************************************)
(* mcp_server.transcribe_from_url and transcribe_local_file                *)
(***************************************************************************)
\* The literals the two tools build their answers from.
ToolMessages ==
    [unsupported_url |->
        <<"u274C", " ", "u4E0D", "u652F", "u6301", "u7684", "U", "R", "L",
          "u6216", "U", "R", "L", "u65E0", "u6548", ":", " ">>,
     info_failed |->
        <<"u274C", " ", "u83B7", "u53D6", "u89C6", "u9891", "u4FE1", "u606F",
          "u5931", "u8D25", ":", " ">>,
     no_file |->
        <<"u274C", " ", "u6587", "u4EF6", "u4E0D", "u5B58", "u5728", ":",
          " ">>,
     bad_format |->
        <<"u274C", " ", "u4E0D", "u652F", "u6301", "u7684", "u6587", "u4EF6",
          "u683C", "u5F0F", ":", " ">>,
     failed |->
        <<"u274C", " ", "u8F6C", "u5F55", "u5931", "u8D25", ":", " ">>,
     done |->
        <<"u2705", " ", "u8F6C", "u5F55", "u5B8C", "u6210", "uFF01", "\n",
          "\n">>,
     video |->
        <<"u1F4F9", " ", "u89C6", "u9891", ":", " ">>,
     duration |->
        <<"\n", "u23F1", "uFE0F", " ", "u65F6", "u957F", ":", " ">>,
     seconds |->
        <<"u79D2">>,
     file |->
        <<"u1F4C1", " ", "u6587", "u4EF6", ":", " ">>,
     format |->
        <<"\n", "u1F3AF", " ", "u683C", "u5F0F", ":", " ">>]

\* audio_exts and get_supported_video_formats(), as far as the inputs go.
AudioExts == {<<".", "w", "a", "v">>}
VideoExts == {<<".", "m", "p", "4">>}

ModelLoadFailedPrefix ==
    <<"u6A21", "u578B", "u52A0", "u8F7D", "u5931", "u8D25", ":", " ">>

\* The temporary directory tempfile.mkdtemp makes for the call.
TempDir == "mcp_asr_tmp"

\* The answer: the characters s, followed by the JSON document of each
\* element of json (the formatter's output for the format json).
ToolReturn(s, json) == [kind |-> "return", s |-> s, json |-> json]

\* The url or the path the tool is called with, the file name and stem of
\* a path, and the video_info the formatter is given.
ToolTarget(env) ==
    IF env.tool = "url"
    THEN [arg  |-> <<"h", ":", "/", "/", "v">>,
          info |-> [title |-> <<"v">>, duration |-> 3]]
    ELSE [arg  |-> <<"a">> \o env.ext,
          name |-> <<"a">> \o env.ext,
          info |-> [title |-> <<"a">>, duration |-> 0]]

\* The validation at the head of the tool, up to tempfile.mkdtemp: an
\* unsupported url, a failing get_video_info or a missing file end the call
\* with a message before any directory exists.
ToolStart ==
    /\ pc = "tool_call"
    /\ IF ~tool_env.accepted
       THEN /\ tool_out' = ToolReturn(
                   (IF tool_env.tool = "url" THEN ToolMessages.unsupported_url
                    ELSE ToolMessages.no_file) \o ToolTarget(tool_env).arg,
                   <<>>)
            /\ pc' = "tool_done" /\ UNCHANGED files
       ELSE IF tool_env.tool = "url" /\ ~tool_env.info_ok
       THEN /\ tool_out' = ToolReturn(ToolMessages.info_failed \o <<"i">>, <<>>)
            /\ pc' = "tool_done" /\ UNCHANGED files
       ELSE /\ files' = files \cup {TempDir}
            /\ pc' = "tool_audio" /\ UNCHANGED tool_out
    /\ UNCHANGED <<tool_env, cli_env, temp_audio_path, exit_code, coreVars>>

\* A variant in which the unsupported extension returns at once, outside
\* the try block.
ToolGetAudioOutsideTry ==
    /\ pc = "tool_audio"
    /\ IF tool_env.tool = "local" /\ tool_env.ext \notin AudioExts \cup VideoExts
       THEN /\ tool_out' = ToolReturn(ToolMessages.bad_format \o tool_env.ext,
                                      <<>>)
            /\ pc' = "tool_done"
       ELSE IF ~tool_env.audio_ok
                 /\ (tool_env.tool = "url" \/ tool_env.ext \in VideoExts)
       THEN /\ tool_out' = Raise("Exception", <<"d">>)
            /\ pc' = "tool_finally"
       ELSE pc' = "tool_model" /\ UNCHANGED tool_out
    /\ UNCHANGED <<tool_env, files, cli_env, temp_audio_path, exit_code,
                   coreVars>>

\* The head of the try block: download_audio_only for a url; for a file,
\* the test of its extension and extract_audio_from_video for a video.
ToolGetAudio ==
    /\ pc = "tool_audio"
    /\ IF tool_env.tool = "local" /\ tool_env.ext \notin AudioExts \cup VideoExts
       THEN /\ tool_out' = ToolReturn(ToolMessages.bad_format \o tool_env.ext,
                                      <<>>)
            /\ pc' = "tool_finally"
       ELSE IF ~tool_env.audio_ok
                 /\ (tool_env.tool = "url" \/ tool_env.ext \in VideoExts)
       THEN /\ tool_out' = Raise("Exception", <<"d">>)
            /\ pc' = "tool_finally"
       ELSE pc' = "tool_model" /\ UNCHANGED tool_out
    /\ UNCHANGED <<tool_env, files, cli_env, temp_audio_path, exit_code,
                   coreVars>>

\* transcriber = ASRTranscriber(enable_vad=True): _load_model raises when
\* the model cannot be loaded.
ToolLoadModel ==
    /\ pc = "tool_model"
    /\ IF tool_env.model_ok
       THEN pc' = "tool_transcribe" /\ UNCHANGED tool_out
       ELSE /\ tool_out' = Raise("Exception", ModelLoadFailedPrefix \o <<"m">>)
            /\ pc' = "tool_finally"
    /\ UNCHANGED <<tool_env, files, cli_env, temp_audio_path, exit_code,
                   coreVars>>

\* result = transcriber.transcribe_audio(...), the formatting of result
\* and the return statement.
ToolTranscribe ==
    /\ pc = "tool_transcribe"
    /\ pc' = "tool_finally"
    /\ tool_out' =
         IF tool_env.transcription.kind = "raise" THEN tool_env.transcription
         ELSE LET output == mcp_format_transcription_output(
                                tool_env.transcription.value,
                                tool_env.output_format,
                                ToolTarget(tool_env).info)
                  head   == IF tool_env.tool = "url"
                            THEN ToolMessages.video
                                     \o ToolTarget(tool_env).info.title
                                     \o ToolMessages.duration
                                     \o DecStr(ToolTarget(tool_env).info.duration)
                                     \o ToolMessages.seconds
                            ELSE ToolMessages.file \o ToolTarget(tool_env).name
              IN  ToolReturn(ToolMessages.done \o head \o ToolMessages.format
                                 \o tool_env.output_format \o <<"\n", "\n">>
                                 \o (IF output.kind = "str" THEN output.s
                                     ELSE <<>>),
                             IF output.kind = "json" THEN <<output.of>>
                             ELSE <<>>)
    /\ UNCHANGED <<tool_env, files, cli_env, temp_audio_path, exit_code,
                   coreVars>>

\* finally: shutil.rmtree(temp_dir) if it exists; then the return in
\* progress, or the handler of the outer try for an exception.
ToolFinally ==
    /\ pc = "tool_finally"
    /\ files' = files \ {TempDir}
    /\ tool_out' = IF tool_out.kind = "raise"
                   THEN ToolReturn(ToolMessages.failed \o tool_out.msg, <<>>)
                   ELSE tool_out
    /\ pc' = "tool_done"
    /\ UNCHANGED <<tool_env, cli_env, temp_audio_path, exit_code, coreVars>>

\* What transcribe_audio does for the tool: it raises, returns a failure,
\* or returns a transcription with or without segments.
TranscriptionOutcomes ==
    {Raise("Exception", AudioInfoFailedPrefix \o <<"e">>)}
        \cup {[kind |-> "return", value |-> v] :
                v \in {Failure(NoResultError),
                       Failure(TranscriptionFailedPrefix \o <<"x">>)}
                      \cup {[success |-> TRUE, text |-> SpokenText,
                             segments |-> segs,
                             language |-> <<"z", "h">>,
                             duration |-> 0, confidence |-> 0] :
                               segs \in {<<>>, <<SegmentHello, SegmentBye>>}}}

ToolInit ==
    /\ pc = "tool_call"
    /\ tool_env \in [tool          : {"url", "local"},
                     accepted      : BOOLEAN,
                     info_ok       : BOOLEAN,
                     ext           : {<<".", "w", "a", "v">>,
                                      <<".", "m", "p", "4">>,
                                      <<".", "x">>},
                     audio_ok      : BOOLEAN,
                     model_ok      : BOOLEAN,
                     transcription : TranscriptionOutcomes,
                     output_format : FormatChoices]
    /\ tool_out = NoOutput
    /\ files = {}
    /\ cli_env = Unset /\ temp_audio_path = Unset /\ exit_code = Unset
    /\ CleanIdle /\ TimeIdle /\ SegIdle /\ RenderIdle /\ TxIdle

ToolNext ==
    \/ ToolStart \/ ToolGetAudio \/ ToolLoadModel \/ ToolTranscribe
    \/ ToolFinally

SpecTool == ToolInit /\ [][ToolNext]_vars

(***************************************************************************)
(* Properties of the MCP tools                                             *)
(***************************************************************************)
ToolReturned == pc = "tool_done"

\* The call got as far as tempfile.mkdtemp.
ToolMadeDir ==
    tool_env.accepted /\ (tool_env.tool = "local" \/ tool_env.info_ok)

\* The call got as far as transcribe_audio, which returned a result.
ToolGotResult ==
    /\ ToolReturned /\ ToolMadeDir
    /\ tool_env.tool = "local" => tool_env.ext \in AudioExts \cup VideoExts
    /\ tool_env.audio_ok
          \/ (tool_env.tool = "local" /\ tool_env.ext \in AudioExts)
    /\ tool_env.model_ok
    /\ tool_env.transcription.kind = "return"

\* The answer begins with the mark and the words of a finished
\* transcription.
ReportsSuccess ==
    /\ Len(tool_out.s) >= 6
    /\ SubSeq(tool_out.s, 1, 6) = SubSeq(ToolMessages.done, 1, 6)

\* The answer holds the message msg, in its characters or as the error of
\* the result in its JSON document.
AnswerHolds(msg) ==
    \/ Contains(tool_out.s, msg)
    \/ \E k \in 1..Len(tool_out.json) :
           /\ "error" \in DOMAIN tool_out.json[k].transcription
           /\ tool_out.json[k].transcription.error = msg

\* C23: when transcribe_audio returns a result with success false, the
\* answer of the tool does not begin as the answer of a finished
\* transcription does, and it holds the error of the result.
C23_FailureNotReportedAsSuccess ==
    (ToolGotResult /\ ~tool_env.transcription.value.success)
    => /\ ~ReportsSuccess
       /\ AnswerHolds(tool_env.transcription.value.error)

\* C24: when the tool returns, the temporary directory it made is gone,
\* whichever way the call went after tempfile.mkdtemp.
C24_TempDirRemoved == ToolReturned => TempDir \notin files

\* C24 happens: a call that made its directory has returned, here by the
\* early return for an extension the tool does not support.
C24_Witness ==
    /\ ToolReturned /\ ToolMadeDir
    /\ tool_env.tool = "local"
    /\ tool_env.ext \notin AudioExts \cup VideoExts
    /\ Contains(tool_out.s, ToolMessages.bad_format)
    /\ TempDir \notin files

(***************************************************************************)
(* main.main from the extraction of the audio on, and                      *)
(* video_processor.extract_audio_from_video                                *)
(***************************************************************************)
\* The file tempfile.NamedTemporaryFile(suffix='.wav', delete=False) makes,
\* and the path --keep-audio renames it to.
TempAudio == <<"t", "m", "p", ".", "w", "a", "v">>
KeptAudio == <<"v", "_", "t", "r", "a", "n", "s", "c", "r", "i", "p", "t",
               "i", "o", "n", ".", "w", "a", "v">>

\* temp_audio_path = extract_audio_from_video(args.input): the video is
\* gone and nothing is made; or the temporary file is made and the
\* extraction raises, so that temp_audio_path stays None; or the path of
\* the file is returned.
CliExtract ==
    /\ pc = "cli_extract"
    /\ IF cli_env.extraction = "missing"
       THEN /\ exit_code' = 1 /\ pc' = "cli_finally"
            /\ UNCHANGED <<files, temp_audio_path>>
       ELSE IF cli_env.extraction = "fails"
       THEN /\ files' = files \cup {TempAudio}
            /\ exit_code' = 1 /\ pc' = "cli_finally"
            /\ UNCHANGED temp_audio_path
       ELSE /\ files' = files \cup {TempAudio}
            /\ temp_audio_path' = TempAudio
            /\ pc' = "cli_validate"
            /\ UNCHANGED exit_code
    /\ UNCHANGED <<cli_env, tool_env, tool_out, coreVars>>

\* audio_validation = validate_audio_file(temp_audio_path); return 1 when
\* it is not valid.
CliValidate ==
    /\ pc = "cli_validate"
    /\ IF cli_env.audio_valid
       THEN pc' = "cli_model" /\ UNCHANGED exit_code
       ELSE pc' = "cli_finally" /\ exit_code' = 1
    /\ UNCHANGED <<cli_env, temp_audio_path, files, tool_env, tool_out,
                   coreVars>>

\* transcriber = ASRTranscriber(...)
CliLoadModel ==
    /\ pc = "cli_model"
    /\ IF cli_env.model_ok
       THEN pc' = "cli_transcribe" /\ UNCHANGED exit_code
       ELSE pc' = "cli_finally" /\ exit_code' = 1
    /\ UNCHANGED <<cli_env, temp_audio_path, files, tool_env, tool_out,
                   coreVars>>

\* transcribe_with_timestamps or transcribe_audio, and the test of
\* result["success"]: an exception and a failed result both end with 1.
CliTranscribe ==
    /\ pc = "cli_transcribe"
    /\ IF cli_env.transcription = "success"
       THEN pc' = "cli_write" /\ UNCHANGED exit_code
       ELSE pc' = "cli_finally" /\ exit_code' = 1
    /\ UNCHANGED <<cli_env, temp_audio_path, files, tool_env, tool_out,
                   coreVars>>

\* format_transcription_output, which may raise, and the writing of the
\* output file, whose failure is caught and ends with 1.
CliWrite ==
    /\ pc = "cli_write"
    /\ exit_code' = IF cli_env.render_ok /\ cli_env.write_ok THEN 0 ELSE 1
    /\ pc' = "cli_finally"
    /\ UNCHANGED <<cli_env, temp_audio_path, files, tool_env, tool_out,
                   coreVars>>

\* finally: if temp_audio_path and os.path.exists(temp_audio_path), the
\* file is renamed with --keep-audio and unlinked without.
CliFinally ==
    /\ pc = "cli_finally"
    /\ files' = IF temp_audio_path # PyNone /\ temp_audio_path \in files
                THEN IF cli_env.keep_audio
                     THEN (files \ {temp_audio_path}) \cup {KeptAudio}
                     ELSE files \ {temp_audio_path}
                ELSE files
    /\ pc' = "cli_done"
    /\ UNCHANGED <<cli_env, temp_audio_path, exit_code, tool_env, tool_out,
                   coreVars>>

CliInit ==
    /\ pc = "cli_extract"
    /\ cli_env \in [extraction    : {"missing", "fails", "ok"},
                    audio_valid   : BOOLEAN,
                    model_ok      : BOOLEAN,
                    timestamps    : BOOLEAN,
                    transcription : {"raise", "failure", "success"},
                    render_ok     : BOOLEAN,
                    write_ok      : BOOLEAN,
                    keep_audio    : BOOLEAN]
    /\ temp_audio_path = PyNone
    /\ exit_code = Unset
    /\ files = {}
    /\ tool_env = Unset /\ tool_out = Unset
    /\ CleanIdle /\ TimeIdle /\ SegIdle /\ RenderIdle /\ TxIdle

CliNext ==
    \/ CliExtract \/ CliValidate \/ CliLoadModel \/ CliTranscribe
    \/ CliWrite \/ CliFinally

SpecCli == CliInit /\ [][CliNext]_vars

\* C25: when main returns, no temporary audio file is on disk: it was
\* deleted or, with --keep-audio, renamed to the kept path, whichever way
\* the run went after the extraction was started.
C25_TempAudioDisposed ==
    pc = "cli_done"
    => /\ TempAudio \notin files
       /\ KeptAudio \in files => cli_env.keep_audio

\* The same for the runs in which the extraction does not fail after it
\* made its file.
TempAudioDisposedUnlessExtractionFails ==
    cli_env.extraction # "fails" => C25_TempAudioDisposed
====
